---- MODULE Spec2Model ----
(***************************************************************************)
(* Verification model of the NeuroScreenCaster editor core (Edit screen):  *)
(* segment model, gap search, timeline drag handlers, cursor pipeline,     *)
(* click pulse and the spring camera track.                                *)
(*                                                                         *)
(* Numbers.  Times are integer milliseconds.  Normalized rect coordinates   *)
(* (x/y/width/height) are fixed-point integers in units of 1/RectScale,    *)
(* so 1.0 is RectScale and MIN_RECT_SIZE 0.05 is 50.  Cursor coordinates   *)
(* and the click pulse are floating-point values (see "Floating point").   *)
(* An optional value (T | undefined | null) is a sequence of length <= 1.  *)
(***************************************************************************)
EXTENDS Integers, Sequences, FiniteSets, TLC

\* ------------------------------------------------------------------------
\* Program constants (src/unnamed/part_006, Edit screen)
\* ------------------------------------------------------------------------
RectScale == 1000
MIN_RECT_SIZE == 50
MIN_SEGMENT_MS == 200
MIN_SEGMENT_GAP_MS == 200
ADD_SEGMENT_LENGTH_MS == 1600
EFFECTIVE_ZOOM_EPSILON_MILLI == 1
PREVIEW_SPRING_FPS == 60
CLICK_PULSE_MIN_SCALE == 820
CLICK_PULSE_TOTAL_MS == 150
CLICK_PULSE_DOWN_MS == 65

DEFAULT_RECT == [x |-> 200, y |-> 200, width |-> 600, height |-> 600]
FULL_RECT == [x |-> 0, y |-> 0, width |-> 1000, height |-> 1000]
DEFAULT_SPRING == [mass |-> 1000, stiffness |-> 170000, damping |-> 26000]
DEFAULT_SEGMENT_MODE == "fixed"
DEFAULT_SEGMENT_TRIGGER == "manual"

\* ------------------------------------------------------------------------
\* Arithmetic helpers
\* ------------------------------------------------------------------------
\* The non-finite JS numbers.  A finite number is an integer of magnitude at
\* most NumberMaxValue (the model's Number.MAX_VALUE); a result beyond it
\* overflows to Infinity or -Infinity, as in IEEE-754.
NumberMaxValue == 1000000000
Infinity == NumberMaxValue + 1
NaN == NumberMaxValue + 2

\* Math.min and Math.max return NaN when an argument is NaN.
Min(a, b) == IF a = NaN \/ b = NaN THEN NaN ELSE IF a < b THEN a ELSE b
Max(a, b) == IF a = NaN \/ b = NaN THEN NaN ELSE IF a > b THEN a ELSE b
Abs(a) == IF a < 0 THEN -a ELSE a

\* Math.min(Math.max(value, min), max)
clamp(value, min, max) == Min(Max(value, min), max)

\* Integer division truncating toward zero (the fixed-point image of "/").
DivT(a, b) == IF a >= 0 THEN a \div b ELSE -((-a) \div b)

\* Math.round for a quotient of integers n / d with d > 0 (round half up).
RoundDiv(n, d) == (2 * n + d) \div (2 * d)

\* Arithmetic on numbers that may be infinite or NaN.
NumOverflow(n) ==
  IF n > NumberMaxValue THEN Infinity ELSE IF n < -NumberMaxValue THEN -Infinity ELSE n

NumAdd(a, b) ==
  IF a = NaN \/ b = NaN THEN NaN
  ELSE IF Abs(a) = Infinity THEN (IF b = -a THEN NaN ELSE a)
  ELSE IF Abs(b) = Infinity THEN b
  ELSE NumOverflow(a + b)

NumSub(a, b) == IF b = NaN THEN NaN ELSE NumAdd(a, -b)

NumMul(a, b) ==
  IF a = NaN \/ b = NaN THEN NaN
  ELSE IF a = 0 \/ b = 0 THEN (IF Abs(a) = Infinity \/ Abs(b) = Infinity THEN NaN ELSE 0)
  ELSE IF Abs(a) = Infinity \/ Abs(b) = Infinity \/ Abs(a) > NumberMaxValue \div Abs(b)
    THEN (IF (a < 0) = (b < 0) THEN Infinity ELSE -Infinity)
  ELSE a * b

\* a / d for a finite d > 0.
NumDiv(a, d) == IF a = NaN \/ Abs(a) = Infinity THEN a ELSE RoundDiv(a, d)

\* a * (n / d) for finite n >= 0 and d > 0, the quotient taken first so that
\* the product stays in range whenever the result does.
NumMulRatio(a, n, d) ==
  IF a = NaN THEN NaN
  ELSE IF Abs(a) = Infinity THEN (IF n = 0 THEN NaN ELSE a)
  ELSE NumOverflow(DivT(a, d) * n + RoundDiv((a - DivT(a, d) * d) * n, d))

Last(s) == s[Len(s)]

RECURSIVE Flatten(_)
Flatten(ss) == IF ss = << >> THEN << >> ELSE Head(ss) \o Flatten(Tail(ss))

\* Array.prototype.findIndex over a BOOLEAN sequence of per-element tests,
\* shifted to 1-based: the least index whose test is TRUE, 0 for -1.
FirstTrue(flags) ==
  IF \E i \in 1..Len(flags) : flags[i]
  THEN CHOOSE i \in 1..Len(flags) : flags[i] /\ \A j \in 1..(i - 1) : ~flags[j]
  ELSE 0

\* Array.prototype.sort((a, b) => a.key - b.key) is stable: given the keys of
\* the elements, the permutation that orders them by (key, original index).
StableOrder(keys) ==
  LET n == Len(keys)
      Rank(i) == Cardinality({j \in 1..n : keys[j] < keys[i] \/ (keys[j] = keys[i] /\ j < i)}) + 1
  IN [p \in 1..n |-> CHOOSE i \in 1..n : Rank(i) = p]

SortByTs(s) ==
  LET order == StableOrder([i \in 1..Len(s) |-> s[i].ts])
  IN [p \in 1..Len(s) |-> s[order[p]]]

SortByStartTs(s) ==
  LET order == StableOrder([i \in 1..Len(s) |-> s[i].startTs])
  IN [p \in 1..Len(s) |-> s[order[p]]]

\* ------------------------------------------------------------------------
\* Geometry
\* ------------------------------------------------------------------------
normalizeRect(rect) ==
  LET Place(width, height) ==
        [x |-> clamp(rect.x, 0, NumSub(RectScale, width)),
         y |-> clamp(rect.y, 0, NumSub(RectScale, height)),
         width |-> width, height |-> height]
  IN Place(clamp(rect.width, MIN_RECT_SIZE, RectScale),
           clamp(rect.height, MIN_RECT_SIZE, RectScale))

\* getZoomStrength(rect) > 1 + EFFECTIVE_ZOOM_EPSILON, i.e.
\* 1 / max(width, height) > 1.001, cross-multiplied.
getZoomStrengthEffective(rect) ==
  Max(rect.width, rect.height) * (1000 + EFFECTIVE_ZOOM_EPSILON_MILLI) < RectScale * 1000

\* ------------------------------------------------------------------------
\* Segment model
\* ------------------------------------------------------------------------
normalizeSegmentMode(mode) ==
  IF mode = "follow-cursor" THEN "follow-cursor" ELSE DEFAULT_SEGMENT_MODE

normalizeSegmentTrigger(trigger, isAuto) ==
  IF trigger \in {"auto-click", "auto-scroll", "manual"} THEN trigger
  ELSE IF isAuto THEN "auto-click" ELSE DEFAULT_SEGMENT_TRIGGER

normalizeZoomSegment(segment) ==
  [segment EXCEPT
     !.mode = IF segment.isAuto THEN "follow-cursor" ELSE normalizeSegmentMode(segment.mode),
     !.trigger = normalizeSegmentTrigger(segment.trigger, segment.isAuto)]

\* segment.initialRect ?? segment.targetRect ?? DEFAULT_RECT
getSegmentBaseRect(segment) ==
  normalizeRect(IF segment.initialRect # << >> THEN segment.initialRect[1]
                ELSE IF segment.targetRect # << >> THEN segment.targetRect[1]
                ELSE DEFAULT_RECT)

getSortedPanTrajectory(segment) == SortByTs(segment.panTrajectory)

RECURSIVE panOffsetScan(_, _, _)
panOffsetScan(trajectory, ts, index) ==
  IF index > Len(trajectory) - 1
  THEN [offsetX |-> Last(trajectory).offsetX, offsetY |-> Last(trajectory).offsetY]
  ELSE
    LET Between(left, right) ==
          IF ts < left.ts \/ ts > right.ts THEN panOffsetScan(trajectory, ts, index + 1)
          ELSE IF right.ts - left.ts <= 0
            THEN [offsetX |-> right.offsetX, offsetY |-> right.offsetY]
          ELSE [offsetX |-> left.offsetX
                              + DivT((right.offsetX - left.offsetX) * (ts - left.ts),
                                     right.ts - left.ts),
                offsetY |-> left.offsetY
                              + DivT((right.offsetY - left.offsetY) * (ts - left.ts),
                                     right.ts - left.ts)]
    IN Between(trajectory[index], trajectory[index + 1])

panOffsetAtTime(trajectory, ts) ==
  IF Len(trajectory) = 0 \/ ts <= trajectory[1].ts THEN [offsetX |-> 0, offsetY |-> 0]
  ELSE IF ts >= Last(trajectory).ts
    THEN [offsetX |-> Last(trajectory).offsetX, offsetY |-> Last(trajectory).offsetY]
  ELSE panOffsetScan(trajectory, ts, 1)

getLegacyPanRectAtTimelineTs(segment, timelineTs) ==
  LET Shifted(base, off) ==
        normalizeRect([x |-> base.x + off.offsetX, y |-> base.y + off.offsetY,
                       width |-> base.width, height |-> base.height])
  IN Shifted(getSegmentBaseRect(segment),
             panOffsetAtTime(getSortedPanTrajectory(segment), timelineTs))

getSegmentTargetPoints(segment) ==
  LET ClampPoint(point) == [ts |-> clamp(point.ts, segment.startTs, segment.endTs),
                            rect |-> normalizeRect(point.rect)]
      PadEnd(points) ==
        IF Last(points).ts < segment.endTs
        THEN Append(points, [ts |-> segment.endTs, rect |-> Last(points).rect])
        ELSE points
      PadStart(explicitPoints) ==
        (IF explicitPoints[1].ts > segment.startTs
         THEN << [ts |-> segment.startTs, rect |-> explicitPoints[1].rect] >>
         ELSE << >>) \o explicitPoints
      BaseRectPoints(baseRect) == << [ts |-> segment.startTs, rect |-> baseRect],
                                     [ts |-> segment.endTs, rect |-> baseRect] >>
      KeyframePoint(keyframe) ==
        IF keyframe.ts < segment.startTs \/ keyframe.ts > segment.endTs THEN << >>
        ELSE << [ts |-> keyframe.ts,
                 rect |-> getLegacyPanRectAtTimelineTs(segment, keyframe.ts)] >>
      LegacyPoints(legacyPan) ==
        IF Len(legacyPan) = 0 THEN BaseRectPoints(getSegmentBaseRect(segment))
        ELSE SortByTs(<< [ts |-> segment.startTs,
                          rect |-> getLegacyPanRectAtTimelineTs(segment, segment.startTs)] >>
                      \o Flatten([i \in 1..Len(legacyPan) |-> KeyframePoint(legacyPan[i])])
                      \o << [ts |-> segment.endTs,
                             rect |-> getLegacyPanRectAtTimelineTs(segment, segment.endTs)] >>)
      Points(explicitPoints) ==
        IF Len(explicitPoints) > 0 THEN PadEnd(PadStart(explicitPoints))
        ELSE LegacyPoints(getSortedPanTrajectory(segment))
  IN Points(SortByTs([i \in 1..Len(segment.targetPoints) |->
                        ClampPoint(segment.targetPoints[i])]))

\* A filter that also drops the points at the effective start itself.
keepsTrimmedPointStrictlyAfter(point, effectiveStartTs) == point.ts > effectiveStartTs

\* .filter((point) => point.ts >= effectiveStartTs)
keepsTrimmedPoint(point, effectiveStartTs) == point.ts >= effectiveStartTs

\* Returns << >> for null, << segment >> otherwise.
trimAutoNoopSegment(segment) ==
  LET KeepPoint(point, effectiveStartTs) ==
        IF keepsTrimmedPoint(point, effectiveStartTs)
        THEN << [ts |-> clamp(point.ts, effectiveStartTs, segment.endTs),
                 rect |-> normalizeRect(point.rect)] >>
        ELSE << >>
      PadStart(kept, effectiveStartTs) ==
        IF kept[1].ts > effectiveStartTs
        THEN << [ts |-> effectiveStartTs, rect |-> kept[1].rect] >> \o kept
        ELSE kept
      PadEnd(withStart) ==
        IF Last(withStart).ts < segment.endTs
        THEN Append(withStart, [ts |-> segment.endTs, rect |-> Last(withStart).rect])
        ELSE withStart
      Trimmed(effectiveStartTs, trimmedPoints) ==
        << [segment EXCEPT !.startTs = effectiveStartTs,
                           !.initialRect = << trimmedPoints[1].rect >>,
                           !.targetPoints = trimmedPoints] >>
      TrimKept(kept, effectiveStartTs) ==
        IF Len(kept) = 0 THEN << >>
        ELSE Trimmed(effectiveStartTs, PadEnd(PadStart(kept, effectiveStartTs)))
      TrimFrom(points, effectiveStartTs) ==
        IF effectiveStartTs >= segment.endTs THEN << >>
        ELSE TrimKept(Flatten([i \in 1..Len(points) |-> KeepPoint(points[i], effectiveStartTs)]),
                      effectiveStartTs)
      TrimAt(points, firstEffectiveIndex) ==
        IF firstEffectiveIndex = 0 THEN << >>
        ELSE TrimFrom(points,
                      clamp(points[firstEffectiveIndex].ts, segment.startTs, segment.endTs))
      TrimPoints(points) ==
        IF Len(points) = 0 THEN << segment >>
        ELSE TrimAt(points,
                    FirstTrue([i \in 1..Len(points) |-> getZoomStrengthEffective(points[i].rect)]))
  IN IF ~segment.isAuto THEN << segment >>
     ELSE TrimPoints(getSegmentTargetPoints(segment))

NormalizeAndTrim(segment) == trimAutoNoopSegment(normalizeZoomSegment(segment))

sortSegments(segments) ==
  SortByStartTs(Flatten([i \in 1..Len(segments) |-> NormalizeAndTrim(segments[i])]))

getSegmentNeighborBounds(segments, segmentId, timelineDurationMs) ==
  LET Bounds(sorted, index) ==
        IF index = 0 THEN [prevEndTs |-> 0, nextStartTs |-> Max(0, timelineDurationMs)]
        ELSE [prevEndTs |-> IF index > 1 THEN sorted[index - 1].endTs ELSE 0,
              nextStartTs |-> IF index + 1 <= Len(sorted) THEN sorted[index + 1].startTs
                              ELSE Max(0, timelineDurationMs)]
      Find(sorted) ==
        Bounds(sorted, FirstTrue([i \in 1..Len(sorted) |-> sorted[i].id = segmentId]))
  IN Find(SortByStartTs(segments))

\* The gap list built by the scan over the sorted segments.
RECURSIVE gapScan(_, _, _, _)
gapScan(sorted, safeDuration, cursor, gaps) ==
  LET GapStart == IF cursor <= 0 THEN 0 ELSE cursor + MIN_SEGMENT_GAP_MS
      Visit(segStart, segEnd) ==
        gapScan(Tail(sorted), safeDuration, Max(cursor, segEnd),
                IF segStart > cursor /\ (segStart - MIN_SEGMENT_GAP_MS) - GapStart >= MIN_SEGMENT_MS
                THEN Append(gaps, [start |-> GapStart, end |-> segStart - MIN_SEGMENT_GAP_MS])
                ELSE gaps)
  IN
  IF sorted = << >> THEN
    IF cursor < safeDuration /\ safeDuration - GapStart >= MIN_SEGMENT_MS
    THEN Append(gaps, [start |-> GapStart, end |-> safeDuration])
    ELSE gaps
  ELSE Visit(clamp(Head(sorted).startTs, 0, safeDuration),
             clamp(Head(sorted).endTs, 0, safeDuration))

\* A slot that ends ADD_SEGMENT_LENGTH_MS after its start whatever the gap.
slotEndTsUnclipped(startTs, gapEnd) == startTs + ADD_SEGMENT_LENGTH_MS

\* let endTs = Math.min(startTs + 1600, gapEnd)
slotEndTs(startTs, gapEnd) == Min(startTs + ADD_SEGMENT_LENGTH_MS, gapEnd)

\* A slot that starts where its gap starts whatever the preferred time.
slotStartTsAtGapStart(preferred, gapStart, gapEnd) == gapStart

\* let startTs = clamp(preferred, gapStart, Math.max(gapStart, gapEnd - MIN_SEGMENT_MS))
slotStartTs(preferred, gapStart, gapEnd) ==
  clamp(preferred, gapStart, Max(gapStart, gapEnd - MIN_SEGMENT_MS))

\* gaps.find(...): the index of the first gap long enough that ends after
\* the preferred time, 0 when there is none.
findPreferredGap(gaps, preferred) ==
  FirstTrue([i \in 1..Len(gaps) |->
               gaps[i].end - gaps[i].start >= MIN_SEGMENT_MS /\ preferred < gaps[i].end])

\* The gap findAvailableGapForSegment takes its slot from: << >> when it
\* returns null, << gap >> otherwise.
selectedGap(segments, timelineDurationMs, preferredStartTs) ==
  LET safeDuration == Max(0, timelineDurationMs)
      Pick(gaps, gapIndex) == IF gapIndex = 0 THEN << >> ELSE << gaps[gapIndex] >>
      Search(gaps, preferred) == Pick(gaps, findPreferredGap(gaps, preferred))
  IN
  IF safeDuration < MIN_SEGMENT_MS THEN << >>
  ELSE Search(gapScan(SortByStartTs(segments), safeDuration, 0, << >>),
              clamp(preferredStartTs, 0, safeDuration - MIN_SEGMENT_MS))

\* Returns << >> for null, << [startTs, endTs] >> otherwise.
findAvailableGapForSegment(segments, timelineDurationMs, preferredStartTs) ==
  LET safeDuration == Max(0, timelineDurationMs)
      Fit(gapStart, gapEnd, startTs) ==
        IF slotEndTs(startTs, gapEnd) - startTs < MIN_SEGMENT_MS
        THEN << [startTs |-> Max(gapStart, gapEnd - MIN_SEGMENT_MS), endTs |-> gapEnd] >>
        ELSE << [startTs |-> startTs, endTs |-> slotEndTs(startTs, gapEnd)] >>
      Slot(preferredGap, preferred) ==
        Fit(preferredGap.start, preferredGap.end,
            slotStartTs(preferred, preferredGap.start, preferredGap.end))
      Pick(gaps, preferred, gapIndex) ==
        IF gapIndex = 0 THEN << >> ELSE Slot(gaps[gapIndex], preferred)
      Search(gaps, preferred) == Pick(gaps, preferred, findPreferredGap(gaps, preferred))
  IN
  IF safeDuration < MIN_SEGMENT_MS THEN << >>
  ELSE Search(gapScan(SortByStartTs(segments), safeDuration, 0, << >>),
              clamp(preferredStartTs, 0, safeDuration - MIN_SEGMENT_MS))

mapTimeMs(valueMs, fromDurationMs, toDurationMs) ==
  IF fromDurationMs <= 0 \/ toDurationMs <= 0 THEN 0
  ELSE clamp(RoundDiv(valueMs * toDurationMs, fromDurationMs), 0, toDurationMs)

\* mass, stiffness and damping in thousandths.
normalizeSpring(spring) ==
  IF spring = << >> THEN DEFAULT_SPRING
  ELSE [mass |-> clamp(spring[1].mass, 1, 50000),
        stiffness |-> clamp(spring[1].stiffness, 1, 5000000),
        damping |-> clamp(spring[1].damping, 0, 500000)]

updateSegmentBaseRect(segment, rect) ==
  [segment EXCEPT !.targetRect = << >>,
                  !.initialRect = << normalizeRect(rect) >>,
                  !.spring = << normalizeSpring(segment.spring) >>,
                  !.targetPoints = << >>,
                  !.panTrajectory = << >>]

\* zoomStrength is in hundredths (the Zoom Strength slider has step 0.01);
\* aspectRatio is the quotient aspectW / aspectH of two positive integers.
buildRectFromCenterZoom(centerX, centerY, zoomCenti, aspectW, aspectH) ==
  LET FromWidth(width) == [width |-> width, height |-> (width * aspectH) \div aspectW]
      FromHeight(height) == [width |-> (height * aspectW) \div aspectH, height |-> height]
      HeightAtMost(size) == IF size.height > RectScale THEN FromHeight(RectScale) ELSE size
      HeightAtLeast(size) == IF size.height < MIN_RECT_SIZE THEN FromHeight(MIN_RECT_SIZE) ELSE size
      WidthAtMost(size) == IF size.width > RectScale THEN FromWidth(RectScale) ELSE size
      WidthAtLeast(size) == IF size.width < MIN_RECT_SIZE THEN FromWidth(MIN_RECT_SIZE) ELSE size
      Centered(size) ==
        normalizeRect([x |-> centerX - size.width \div 2, y |-> centerY - size.height \div 2,
                       width |-> size.width, height |-> size.height])
  IN Centered(WidthAtLeast(WidthAtMost(HeightAtLeast(HeightAtMost(
       FromWidth(clamp((RectScale * 100) \div clamp(zoomCenti, 100, 600),
                       MIN_RECT_SIZE, RectScale)))))))

\* ------------------------------------------------------------------------
\* Timeline drag: the three branches of onPointerMove's per-segment update
\* ------------------------------------------------------------------------
\* dragMoveSegment with the start capped by the end of the timeline only.
dragMoveSegmentUncapped(segment, drag, neighbors, deltaTimelineMs, timelineDurationMs) ==
  LET length == drag.initialEndTs - drag.initialStartTs
      rawStartTs == drag.initialStartTs + deltaTimelineMs
      minStartTs == Max(0, neighbors.prevEndTs + MIN_SEGMENT_GAP_MS)
      Moved(startTs) ==
        [segment EXCEPT !.startTs = startTs, !.endTs = startTs + length, !.isAuto = FALSE]
      Within(maxStartTs) ==
        IF maxStartTs < minStartTs THEN [segment EXCEPT !.isAuto = FALSE]
        ELSE Moved(clamp(rawStartTs, minStartTs, maxStartTs))
  IN Within(Max(0, timelineDurationMs - length))

dragMoveSegment(segment, drag, neighbors, deltaTimelineMs, timelineDurationMs) ==
  LET length == drag.initialEndTs - drag.initialStartTs
      rawStartTs == drag.initialStartTs + deltaTimelineMs
      minStartTs == Max(0, neighbors.prevEndTs + MIN_SEGMENT_GAP_MS)
      Moved(startTs) ==
        [segment EXCEPT !.startTs = startTs, !.endTs = startTs + length, !.isAuto = FALSE]
      Within(maxStartTs) ==
        IF maxStartTs < minStartTs THEN [segment EXCEPT !.isAuto = FALSE]
        ELSE Moved(clamp(rawStartTs, minStartTs, maxStartTs))
  IN Within(Min(Max(0, timelineDurationMs - length),
                Max(minStartTs, neighbors.nextStartTs - MIN_SEGMENT_GAP_MS - length)))

dragResizeStart(segment, drag, neighbors, deltaTimelineMs) ==
  LET rawStartTs == drag.initialStartTs + deltaTimelineMs
      minStartTs == Max(0, neighbors.prevEndTs + MIN_SEGMENT_GAP_MS)
      hardMaxStartTs == drag.initialEndTs - 1
      preferredMaxStartTs == drag.initialEndTs - MIN_SEGMENT_MS
      maxStartTs == Max(minStartTs, Min(hardMaxStartTs, preferredMaxStartTs))
  IN [segment EXCEPT !.startTs = clamp(rawStartTs, minStartTs, maxStartTs), !.isAuto = FALSE]

\* dragResizeEnd without the isAuto: false of the returned segment.
dragResizeEndKeepsAuto(segment, drag, neighbors, deltaTimelineMs, timelineDurationMs) ==
  LET rawEndTs == drag.initialEndTs + deltaTimelineMs
      hardMinEndTs == drag.initialStartTs + 1
      preferredMinEndTs == drag.initialStartTs + MIN_SEGMENT_MS
      maxEndTs == Min(timelineDurationMs, neighbors.nextStartTs - MIN_SEGMENT_GAP_MS)
      Resized(minEndTs) ==
        [segment EXCEPT !.endTs = clamp(rawEndTs, minEndTs, Max(minEndTs, maxEndTs))]
  IN Resized(Min(Max(hardMinEndTs, preferredMinEndTs), Max(hardMinEndTs, maxEndTs)))

dragResizeEnd(segment, drag, neighbors, deltaTimelineMs, timelineDurationMs) ==
  LET rawEndTs == drag.initialEndTs + deltaTimelineMs
      hardMinEndTs == drag.initialStartTs + 1
      preferredMinEndTs == drag.initialStartTs + MIN_SEGMENT_MS
      maxEndTs == Min(timelineDurationMs, neighbors.nextStartTs - MIN_SEGMENT_GAP_MS)
      Resized(minEndTs) ==
        [segment EXCEPT !.endTs = clamp(rawEndTs, minEndTs, Max(minEndTs, maxEndTs)),
                        !.isAuto = FALSE]
  IN Resized(Min(Max(hardMinEndTs, preferredMinEndTs), Max(hardMinEndTs, maxEndTs)))

\* ------------------------------------------------------------------------
\* Floating point.  The cursor pipeline computes in JS numbers (IEEE-754
\* binary64, round to nearest, ties to even).  The model keeps the format's
\* structure at a reduced width: a value is an integer count of units of
\* 2^-FloatFractionBits and carries at most FloatPrecisionBits significant
\* bits.  Integer operands (timestamps, pixel coordinates, milliseconds) are
\* exact, as they are below 2^53 in the program.
\* ------------------------------------------------------------------------
FloatFractionBits == 8
FloatPrecisionBits == 6
FloatOne == 2^FloatFractionBits

\* The spacing of representable values at a magnitude given in units.
RECURSIVE FloatUlp(_)
FloatUlp(magnitude) ==
  IF magnitude < 2^FloatPrecisionBits THEN 1 ELSE 2 * FloatUlp(magnitude \div 2)

\* magnitude / divisor rounded to the nearest integer, ties to even.
FloatNearest(magnitude, divisor) ==
  LET Pick(quotient, twiceRemainder) ==
        IF twiceRemainder > divisor \/ (twiceRemainder = divisor /\ quotient % 2 = 1)
        THEN quotient + 1 ELSE quotient
  IN Pick(magnitude \div divisor, 2 * (magnitude % divisor))

FloatRoundMagnitude(numerator, denominator) ==
  LET Scale(ulp) == ulp * FloatNearest(numerator, denominator * ulp)
  IN Scale(FloatUlp(numerator \div denominator))

\* The representable value nearest to numerator / denominator units
\* (denominator > 0): the one rounding every arithmetic operation ends with.
FloatRoundRatio(numerator, denominator) ==
  IF numerator < 0 THEN -FloatRoundMagnitude(-numerator, denominator)
  ELSE FloatRoundMagnitude(numerator, denominator)

FloatAdd(a, b) == FloatRoundRatio(a + b, 1)
FloatSub(a, b) == FloatRoundRatio(a - b, 1)
FloatMul(a, b) == FloatRoundRatio(a * b, FloatOne)
\* A decimal literal or the quotient of two exact integers.
FloatOfRatio(numerator, denominator) == FloatRoundRatio(numerator * FloatOne, denominator)

\* ------------------------------------------------------------------------
\* Cursor pipeline
\* ------------------------------------------------------------------------
IsPointerEvent(event) == event.type \in {"move", "click", "mouseUp", "scroll"}

\* The sample pushed for one pointer event.
CursorSampleOfEvent(event, screenWidth, screenHeight) ==
  [ts |-> event.ts,
   x |-> clamp(FloatOfRatio(event.x, screenWidth), 0, FloatOne),
   y |-> clamp(FloatOfRatio(event.y, screenHeight), 0, FloatOne)]

\* samples.sort((a, b) => a.ts - b.ts) of the samples pushed by the loop.
sortedCursorSamples(file) ==
  LET Samples(pointerEvents) ==
        [i \in 1..Len(pointerEvents) |->
           CursorSampleOfEvent(pointerEvents[i], file.screenWidth, file.screenHeight)]
  IN SortByTs(Samples(SelectSeq(file.events, IsPointerEvent)))

\* alpha = 1 - clamp(smoothingFactor, 0, 1) * 0.9
smoothingAlpha(factorHundredths) ==
  FloatSub(FloatOne, FloatMul(clamp(FloatOfRatio(factorHundredths, 100), 0, FloatOne),
                              FloatOfRatio(9, 10)))

\* One pass of the smoothing loop body.
smoothSample(previous, sample, alpha) ==
  [ts |-> sample.ts,
   x |-> FloatAdd(previous.x, FloatMul(alpha, FloatSub(sample.x, previous.x))),
   y |-> FloatAdd(previous.y, FloatMul(alpha, FloatSub(sample.y, previous.y)))]

RECURSIVE smoothLoop(_, _, _, _)
smoothLoop(sorted, index, alpha, smoothed) ==
  IF index > Len(sorted) THEN smoothed
  ELSE smoothLoop(sorted, index + 1, alpha,
                  Append(smoothed, smoothSample(Last(smoothed), sorted[index], alpha)))

extractCursorSamples(file, factorHundredths) ==
  IF file = << >> \/ file[1].screenWidth <= 0 \/ file[1].screenHeight <= 0 THEN << >>
  ELSE LET Smooth(sorted) ==
             IF Len(sorted) <= 1 THEN sorted
             ELSE smoothLoop(sorted, 2, smoothingAlpha(factorHundredths), << sorted[1] >>)
       IN Smooth(sortedCursorSamples(file[1]))

IsClickEvent(event) == event.type = "click"

extractClickTimestamps(file) ==
  IF file = << >> THEN << >>
  ELSE LET Timestamps(clicks) == [i \in 1..Len(clicks) |-> clicks[i].ts]
       IN Timestamps(SortByTs(SelectSeq(file[1].events, IsClickEvent)))

\* The binary search: nearestIndex (1-based, 0 for -1) of the last click
\* timestamp at or before ts.
RECURSIVE nearestClickIndex(_, _, _, _, _)
nearestClickIndex(clicks, ts, low, high, nearestIndex) ==
  IF low > high THEN nearestIndex
  ELSE LET Probe(mid) ==
             IF clicks[mid] <= ts THEN nearestClickIndex(clicks, ts, mid + 1, high, mid)
             ELSE nearestClickIndex(clicks, ts, low, mid - 1, nearestIndex)
       IN Probe((low + high) \div 2)

FLOAT_CLICK_PULSE_MIN_SCALE == FloatOfRatio(CLICK_PULSE_MIN_SCALE, 1000)

\* The press phase with the ramp inverted: from the minimum at the click up to 1.
clickPulseDownFromMin(dt) ==
  FloatAdd(FLOAT_CLICK_PULSE_MIN_SCALE,
           FloatMul(FloatSub(FloatOne, FLOAT_CLICK_PULSE_MIN_SCALE),
                    FloatOfRatio(dt, CLICK_PULSE_DOWN_MS)))

\* 1 - (1 - CLICK_PULSE_MIN_SCALE) * (dt / CLICK_PULSE_DOWN_MS)
clickPulseDown(dt) ==
  FloatSub(FloatOne, FloatMul(FloatSub(FloatOne, FLOAT_CLICK_PULSE_MIN_SCALE),
                              FloatOfRatio(dt, CLICK_PULSE_DOWN_MS)))

\* CLICK_PULSE_MIN_SCALE + (1 - CLICK_PULSE_MIN_SCALE) * ((dt - DOWN) / upDuration)
clickPulseUp(dt) ==
  FloatAdd(FLOAT_CLICK_PULSE_MIN_SCALE,
           FloatMul(FloatSub(FloatOne, FLOAT_CLICK_PULSE_MIN_SCALE),
                    FloatOfRatio(dt - CLICK_PULSE_DOWN_MS,
                                 Max(1, CLICK_PULSE_TOTAL_MS - CLICK_PULSE_DOWN_MS))))

sampleClickPulseScale(clicks, ts) ==
  IF Len(clicks) = 0 THEN FloatOne
  ELSE LET Pulse(dt) ==
             IF dt < 0 \/ dt > CLICK_PULSE_TOTAL_MS THEN FloatOne
             ELSE IF dt <= CLICK_PULSE_DOWN_MS THEN clickPulseDown(dt)
             ELSE clickPulseUp(dt)
           At(nearestIndex) ==
             IF nearestIndex < 1 THEN FloatOne ELSE Pulse(ts - clicks[nearestIndex])
       IN At(nearestClickIndex(clicks, ts, 1, Len(clicks), 0))

\* ------------------------------------------------------------------------
\* Spring camera track
\* ------------------------------------------------------------------------
\* Follow-cursor constants: the dead zone is 0.2 and the hard edge 0.35 of
\* half the viewport (in hundredths here), the speed limit is in source
\* pixels per second.
FOLLOW_SAMPLE_STEP_MS == 75
FOLLOW_DEAD_ZONE_RATIO_CENTI == 20
FOLLOW_HARD_EDGE_RATIO_CENTI == 35
FOLLOW_MAX_SPEED_PX_PER_S == 800

\* Cursor samples carry x and y in rect units (1/RectScale); the result of an
\* interpolation is rounded to that unit.
RECURSIVE cursorSearch(_, _, _, _)
cursorSearch(samples, ts, low, high) ==
  LET Between(prev, next) ==
        IF next.ts - prev.ts <= 0 THEN [x |-> prev.x, y |-> prev.y]
        ELSE [x |-> prev.x + RoundDiv((next.x - prev.x) * (ts - prev.ts), next.ts - prev.ts),
              y |-> prev.y + RoundDiv((next.y - prev.y) * (ts - prev.ts), next.ts - prev.ts)]
      Halve(mid) ==
        IF samples[mid].ts = ts THEN [x |-> samples[mid].x, y |-> samples[mid].y]
        ELSE IF samples[mid].ts < ts THEN cursorSearch(samples, ts, mid + 1, high)
        ELSE cursorSearch(samples, ts, low, mid - 1)
  IN IF low <= high THEN Halve((low + high) \div 2)
     ELSE Between(samples[Max(1, low - 1)], samples[low])

interpolateCursor(samples, ts) ==
  IF Len(samples) = 0 THEN [x |-> RectScale \div 2, y |-> RectScale \div 2]
  ELSE IF ts <= samples[1].ts THEN [x |-> samples[1].x, y |-> samples[1].y]
  ELSE IF ts >= Last(samples).ts THEN [x |-> Last(samples).x, y |-> Last(samples).y]
  ELSE cursorSearch(samples, ts, 1, Len(samples))

clampCenterToViewport(centerX, centerY, viewportWidth, viewportHeight) ==
  LET Within(halfW, halfH) ==
        [x |-> clamp(centerX, halfW, RectScale - halfW),
         y |-> clamp(centerY, halfH, RectScale - halfH)]
  IN Within(clamp(RoundDiv(viewportWidth, 2), 0, RectScale \div 2),
            clamp(RoundDiv(viewportHeight, 2), 0, RectScale \div 2))

buildRectFromCenterAndSize(centerX, centerY, width, height) ==
  LET Build(safeWidth, safeHeight, clamped) ==
        normalizeRect([x |-> clamped.x - RoundDiv(safeWidth, 2),
                       y |-> clamped.y - RoundDiv(safeHeight, 2),
                       width |-> safeWidth, height |-> safeHeight])
      Sized(safeWidth, safeHeight) ==
        Build(safeWidth, safeHeight,
              clampCenterToViewport(centerX, centerY, safeWidth, safeHeight))
  IN Sized(clamp(width, MIN_RECT_SIZE, RectScale), clamp(height, MIN_RECT_SIZE, RectScale))

\* One axis of a pass of the follow loop: the centre moves toward the cursor
\* once the offset is outside the dead zone, at most at the speed limit.
followCenter(center, cursor, side, sourcePx, dtMs) ==
  LET Move(offset, dead, range) ==
        IF Abs(offset) > dead
        THEN center + (IF offset < 0 THEN -1 ELSE 1)
                      * RoundDiv(Min(Abs(offset) - dead, range) * FOLLOW_MAX_SPEED_PX_PER_S * dtMs,
                                 range * Max(1, sourcePx))
        ELSE center
      Zones(dead, hard) == Move(cursor - center, dead, Max(hard - dead, 1))
  IN Zones(RoundDiv(side * FOLLOW_DEAD_ZONE_RATIO_CENTI, 200),
           RoundDiv(side * FOLLOW_HARD_EDGE_RATIO_CENTI, 200))

\* A sampling time that advances by two steps.
nextFollowTsSkipping(ts) == ts + 2 * Max(FOLLOW_SAMPLE_STEP_MS, 1)

\* ts += stepMs
nextFollowTs(ts) == ts + Max(FOLLOW_SAMPLE_STEP_MS, 1)

\* while (ts <= endTs) { ... }
RECURSIVE followLoop(_, _, _, _, _, _, _)
followLoop(segment, baseRect, samples, source, ts, state, points) ==
  LET Push(rect) ==
        followLoop(segment, baseRect, samples, source, nextFollowTs(ts),
                   [lastTs |-> ts,
                    centerX |-> rect.x + RoundDiv(rect.width, 2),
                    centerY |-> rect.y + RoundDiv(rect.height, 2)],
                   Append(points, [ts |-> ts, rect |-> rect]))
      Pass(cursor, dtMs) ==
        Push(buildRectFromCenterAndSize(
               followCenter(state.centerX, cursor.x, baseRect.width, source.width, dtMs),
               followCenter(state.centerY, cursor.y, baseRect.height, source.height, dtMs),
               baseRect.width, baseRect.height))
  IN IF ts <= segment.endTs
     THEN Pass(interpolateCursor(samples, ts), Max(0, ts - state.lastTs))
     ELSE points

buildFollowCursorTargetPoints(segment, baseRect, samples, sourceWidth, sourceHeight) ==
  LET Close(points) ==
        IF Last(points).ts # segment.endTs
        THEN Append(points, [ts |-> segment.endTs, rect |-> Last(points).rect])
        ELSE points
  IN IF segment.endTs <= segment.startTs
     THEN << [ts |-> segment.startTs, rect |-> baseRect],
             [ts |-> segment.startTs + 1, rect |-> baseRect] >>
     ELSE IF Len(samples) = 0
     THEN << [ts |-> segment.startTs, rect |-> baseRect],
             [ts |-> segment.endTs, rect |-> baseRect] >>
     ELSE Close(followLoop(segment, baseRect, samples,
                           [width |-> sourceWidth, height |-> sourceHeight],
                           segment.startTs,
                           [lastTs |-> segment.startTs,
                            centerX |-> baseRect.x + RoundDiv(baseRect.width, 2),
                            centerY |-> baseRect.y + RoundDiv(baseRect.height, 2)],
                           << >>))

toRuntimeSegments(segments, samples, sourceWidth, sourceHeight) ==
  LET Runtime(segment, baseRect) ==
        [id |-> segment.id, startTs |-> segment.startTs, endTs |-> segment.endTs,
         isAuto |-> segment.isAuto,
         mode |-> normalizeSegmentMode(segment.mode),
         trigger |-> normalizeSegmentTrigger(segment.trigger, segment.isAuto),
         baseRect |-> baseRect,
         targetPoints |->
           IF segment.mode = "follow-cursor"
           THEN buildFollowCursorTargetPoints(segment, baseRect, samples,
                                              sourceWidth, sourceHeight)
           ELSE getSegmentTargetPoints(segment),
         spring |-> normalizeSpring(segment.spring)]
      WithBaseRect(segment) == Runtime(segment, getSegmentBaseRect(segment))
      Mapped(sorted) ==
        [i \in 1..Len(sorted) |-> WithBaseRect(normalizeZoomSegment(sorted[i]))]
  IN Mapped(SortByStartTs(segments))

\* << >> for null, << segment >> otherwise.
resolveRuntimeSegment(segments, timelineTs) ==
  LET Pick(index) == IF index = 0 THEN << >> ELSE << segments[index] >>
  IN Pick(FirstTrue([i \in 1..Len(segments) |->
                       timelineTs >= segments[i].startTs /\ timelineTs < segments[i].endTs]))

getTargetRectAtTs(segment, timelineTs) ==
  LET LatestAmong(reached) ==
        IF reached = {} THEN segment.targetPoints[1].rect
        ELSE segment.targetPoints[CHOOSE i \in reached : \A j \in reached : j <= i].rect
  IN IF Len(segment.targetPoints) = 0 THEN segment.baseRect
     ELSE IF timelineTs <= segment.targetPoints[1].ts THEN segment.targetPoints[1].rect
     ELSE IF timelineTs >= Last(segment.targetPoints).ts THEN Last(segment.targetPoints).rect
     ELSE LatestAmong({i \in 1..Len(segment.targetPoints) :
                         timelineTs >= segment.targetPoints[i].ts})

\* Positions are in units of 1/RectScale, velocities in such units per second,
\* dtMs in milliseconds; safeDt is in units of 0.1 ms (0.0001 s), so that
\* clamp(dtSeconds, 0.0001, 0.1) is clamp(10 * dtMs, 1, 1000).
springStep(current, velocity, target, spring, dtMs) ==
  LET Advance(nextVelocity, safeDt) ==
        [value |-> NumAdd(current, NumMulRatio(nextVelocity, safeDt, 10000)),
         velocity |-> nextVelocity]
      Accelerate(accel, safeDt) ==
        Advance(NumAdd(velocity, NumMulRatio(accel, safeDt, 10000)), safeDt)
  IN Accelerate(NumDiv(NumSub(NumMul(NumSub(target, current), spring.stiffness),
                              NumMul(spring.damping, velocity)),
                       spring.mass),
                clamp(10 * dtMs, 1, 1000))

\* Math.round(frame * stepMs) with stepMs = 1000 / Math.max(1, fps), not yet
\* limited to the duration.
frameTsUnclipped(frame, fps, duration) == RoundDiv(frame * 1000, Max(1, fps))

\* Math.min(Math.round(frame * stepMs), durationMs)
frameTs(frame, fps, duration) == Min(RoundDiv(frame * 1000, Max(1, fps)), duration)

\* The four springStep calls of one loop pass: the rect as the assignments
\* rect.x = stepX.value, ... leave it, and the new velocities.
stepRect(rect, velocity, targetRect, spring, dtMs) ==
  LET Pack(stepX, stepY, stepW, stepH) ==
        [rect |-> [x |-> stepX.value, y |-> stepY.value,
                   width |-> stepW.value, height |-> stepH.value],
         velocity |-> [vx |-> stepX.velocity, vy |-> stepY.velocity,
                       vw |-> stepW.velocity, vh |-> stepH.velocity]]
  IN Pack(springStep(rect.x, velocity.vx, targetRect.x, spring, dtMs),
          springStep(rect.y, velocity.vy, targetRect.y, spring, dtMs),
          springStep(rect.width, velocity.vw, targetRect.width, spring, dtMs),
          springStep(rect.height, velocity.vh, targetRect.height, spring, dtMs))

\* ------------------------------------------------------------------------
\* Model bounds
\* ------------------------------------------------------------------------
TimelineDurationMs == 1000
GridStepMs == 200
MaxSegments == 3
MaxEdits == 2
MaxInitSegments == MaxSegments - 1
MaxGapSegments == 2
MaxTrimPoints == 2
MaxEvents == 2
MaxTrackSegments == 2
MaxLoads == 2
MaxSmokeSegments == 2

\* ------------------------------------------------------------------------
\* State
\* ------------------------------------------------------------------------
VARIABLES
  durationMs,         \* project.durationMs of the loaded project
  zoomSegments,       \* project.timeline.zoomSegments of the Edit screen
  dragState,          \* dragStateRef.current: << >> or << SegmentDragState >>
  selectedSegmentId,  \* << >> (null) or << id >>
  editError,          \* the editor's error banner ("" for null)
  editCount,          \* number of timeline edits applied since the project was loaded
  loadedValid,        \* whether the loaded timeline satisfied the segment invariants
  lastEdit            \* << >> or << the last manual edit: handler and segment id >>

editVars == << durationMs, zoomSegments, dragState, selectedSegmentId, editError, editCount,
               loadedValid, lastEdit >>

\* Gap search (findAvailableGapForSegment applied to one input)
VARIABLES
  gapSegments,        \* the segments argument
  gapDurationMs,      \* the timelineDurationMs argument
  gapPreferredTs,     \* the preferredStartTs argument
  gapReturned,        \* whether the call has returned
  gapSlot             \* the returned value: << >> (null) or << slot >>

gapVars == << gapSegments, gapDurationMs, gapPreferredTs, gapReturned, gapSlot >>

\* Auto-segment trimming (trimAutoNoopSegment applied once and again)
VARIABLES
  trimInput,          \* the segment given to trimAutoNoopSegment
  trimStage,          \* number of applications done: 0, 1 or 2
  trimOnce,           \* trimAutoNoopSegment(trimInput): << >> (null) or << segment >>
  trimTwice           \* trimAutoNoopSegment of that result

trimVars == << trimInput, trimStage, trimOnce, trimTwice >>

\* Cursor pipeline (the cursorSamples / clickTimestamps memos and one cursor frame)
VARIABLES
  eventsFile,         \* << >> (null) or << EventsFile >>
  smoothingFactor,    \* project.settings.cursor.smoothingFactor, in hundredths
  cursorStage,        \* "idle", "loaded", "ready" (memos computed), "drawn" (frame drawn)
  cursorSamples,      \* extractCursorSamples(eventsFile, smoothingFactor)
  clickTimestamps,    \* extractClickTimestamps(eventsFile)
  cursorTimelineMs,   \* the time the drawn frame samples the cursor at
  cursorPulseScale    \* sampleClickPulseScale(clickTimestamps, cursorTimelineMs)

cursorVars == << eventsFile, smoothingFactor, cursorStage, cursorSamples, clickTimestamps,
                 cursorTimelineMs, cursorPulseScale >>

\* Spring camera track (the runtimeSegments memo and buildSpringCameraTrack, loop pass by pass)
VARIABLES
  trackZoomSegments,    \* the timeline segments given to toRuntimeSegments
  trackDurationMs,      \* the durationMs argument
  trackFps,             \* the fps argument
  trackStage,           \* "idle", "loaded", "segments", "loop", "done"
  trackRuntimeSegments, \* toRuntimeSegments(...)
  trackSamples,         \* samples
  trackRect,            \* rect
  trackVelocity,        \* vx, vy, vw, vh
  trackPreviousTs,      \* previousTs
  trackFrame            \* frame

trackVars == << trackZoomSegments, trackDurationMs, trackFps, trackStage, trackRuntimeSegments,
                trackSamples, trackRect, trackVelocity, trackPreviousTs, trackFrame >>

\* Project loading (loadProjectByPath, one call after another)
VARIABLES
  project,              \* << >> (null) or << Project >>
  projectEventsFile,    \* the eventsFile state as the loader sets it: << >> or << EventsFile >>
  projectSelectedId,    \* the selectedSegmentId state as the loader sets it
  error,                \* "" (null) or the error banner
  eventsError,          \* "" (null) or the events warning
  loadedProjectPath,    \* << >> (null) or << path >>
  lastLoad,             \* << >> or << the last call: path and what get_project / get_events gave >>
  loadCount             \* number of loadProjectByPath calls so far

loadVars == << project, projectEventsFile, projectSelectedId, error, eventsError,
               loadedProjectPath, lastLoad, loadCount >>

\* Smoke check (scripts/qa-smoke.mjs, one run of main)
VARIABLES
  smokeFiles,           \* << >> or << what the run finds on disk: project.json, events.json, the video >>
  smokeStage,           \* position of main: "idle", "start", "project", "events", "video",
                        \* "telemetry", "segments", "export", "exited"
  issues,               \* the failures recorded so far
  warnings,             \* the warnings recorded so far
  infos,                \* the infos recorded so far
  smokeCrashed,         \* TRUE once main has thrown (the catch of the entry point ran)
  exitCode              \* << >> while running, << process exit code >> afterwards

smokeVars == << smokeFiles, smokeStage, issues, warnings, infos, smokeCrashed, exitCode >>

\* Export screen (ExportScreen) and the export driver behind its commands
VARIABLES
  exportDriver,         \* the export driver: its status record fields and the cancel flag
  exportScreen,         \* ExportScreen state: status, isStartingExport, isCancellingExport, error, info
  exportCalls,          \* position of each async handler of ExportScreen and the status reply in flight
  exportLog             \* history: explicit Start actions, start_export invocations, exports started

exportVars == << exportDriver, exportScreen, exportCalls, exportLog >>

\* Smart Camera Engine (one pass over an event log)
VARIABLES
  engineInput,          \* << >> or << the event log, the trigger policy and the recording duration >>
  engineItems,          \* the clusters and scroll exits the pass has not consumed yet
  engineCamera,         \* the state machine: state, open segment, lastAutoStart, lastClickTs, lastRetarget
  engineSegments,       \* the segments closed so far, later the post-processed output
  engineStarts,         \* history: trigger time and segment start of each FreeRoam -> LockedFocus
  engineStage           \* "idle", "pass", "closed" (pass over) or "done" (post-processed)

engineVars == << engineInput, engineItems, engineCamera, engineSegments, engineStarts, engineStage >>

\* Preview and export frame transforms of one project
VARIABLES
  parityInput,          \* the project and the output parameters (segments, durationMs, fps, frameSize)
  parityStage,          \* "loaded", "tracks", "frames" or "done"
  parityPreviewTrack,   \* previewCameraTrack (Edit screen)
  parityExportTrack,    \* the camera track the export driver precomputes
  parityFrame,          \* the output frame last composed (from 0), -1 before the first
  parityTransforms      \* << >> or the transforms of that frame: [preview, export]

parityVars == << parityInput, parityStage, parityPreviewTrack, parityExportTrack, parityFrame, parityTransforms >>

\* Record screen and the overlay control window
VARIABLES
  recState,             \* RecordScreen state: "idle", "recording", "paused" or "stopping"
  recRecordingId,       \* << >> for null, << id >> otherwise
  recError,             \* the error message shown, "" for null
  recCalls,             \* the backend commands in flight (start, pause, resume, stop)
  recActions,           \* user actions so far (clicks, Ctrl pressed or released)
  ctrlHeld,             \* the Ctrl key is physically held
  isCtrlPressed,        \* RecordScreen isCtrlPressed
  overlayWindowRef,     \* overlayWindowRef.current is not null
  overlayHiddenRef,     \* overlayHiddenRef.current: "null", "true" or "false"
  overlayWindow,        \* << >> or the overlay window: [listening, state, hidden]
  overlayTasks          \* emitOverlayUpdate calls in flight: [state, hidden, pc]

recordVars == << recState, recRecordingId, recError, recCalls, recActions, ctrlHeld, isCtrlPressed, overlayWindowRef, overlayHiddenRef, overlayWindow, overlayTasks >>

\* handleSaveProject with its save_project call in flight
VARIABLES
  isSaving,             \* Edit screen isSaving
  saveFlight,           \* << >> or the save_project call in flight: [atInvoke, forSave]
  saveOutcome           \* << >> or the last completed save: [atInvoke, before, after]

saveVars == << isSaving, saveFlight, saveOutcome >>

\* App shell (src/src/App.tsx): screens and the unsaved-changes prompt
VARIABLES
  currentScreen,        \* App screen: "record", "edit" or "export" ("off": App not run)
  isEditDirty,          \* App isEditDirty, reported by the Edit screen
  pendingAction,        \* App pendingAction: << >> (null) or << action >>
  showUnsavedPrompt,    \* App showUnsavedPrompt
  isHandlingUnsavedPrompt, \* App isHandlingUnsavedPrompt
  editSaveHandlerRef,   \* whether editSaveHandlerRef.current holds a handler
  unsavedYesFlight,     \* handleUnsavedChoiceYes awaiting the save handler: << >> or << its action >>
  appExiting,           \* executePendingAction has started closeTask
  lastAppHandler        \* the handler that ran last, with what it decided

appVars == << currentScreen, isEditDirty, pendingAction, showUnsavedPrompt, isHandlingUnsavedPrompt, editSaveHandlerRef, unsavedYesFlight, appExiting, lastAppHandler >>

\* Timeline bars (segmentVisuals memo of the Edit screen)
VARIABLES
  segmentVisuals,       \* the segmentVisuals memo: one bar per timeline segment
  visualsComputed       \* whether the memo has been computed for the returned track

visualVars == << segmentVisuals, visualsComputed >>

\* Follow-cursor target points (buildFollowCursorTargetPoints on one segment)
VARIABLES
  followSegment,        \* the follow-cursor zoom segment handed to toRuntimeSegments
  followSamples,        \* the cursorSamples argument (x, y in rect units)
  followPoints,         \* the target points of the runtime segment: << >> until computed
  followDone            \* whether toRuntimeSegments has returned

followVars == << followSegment, followSamples, followPoints, followDone >>

vars == << editVars, gapVars, trimVars, cursorVars, trackVars, loadVars, smokeVars, exportVars, engineVars, parityVars, recordVars, saveVars, appVars, visualVars, followVars >>
nonEditVars == << gapVars, trimVars, cursorVars, trackVars, loadVars, smokeVars, exportVars, engineVars, parityVars, recordVars, saveVars, appVars, visualVars, followVars >>
nonGapVars == << editVars, trimVars, cursorVars, trackVars, loadVars, smokeVars, exportVars, engineVars, parityVars, recordVars, saveVars, appVars, visualVars, followVars >>
nonTrimVars == << editVars, gapVars, cursorVars, trackVars, loadVars, smokeVars, exportVars, engineVars, parityVars, recordVars, saveVars, appVars, visualVars, followVars >>
nonCursorVars == << editVars, gapVars, trimVars, trackVars, loadVars, smokeVars, exportVars, engineVars, parityVars, recordVars, saveVars, appVars, visualVars, followVars >>
nonTrackVars == << editVars, gapVars, trimVars, cursorVars, loadVars, smokeVars, exportVars, engineVars, parityVars, recordVars, saveVars, appVars, visualVars, followVars >>
nonLoadVars == << editVars, gapVars, trimVars, cursorVars, trackVars, smokeVars, exportVars, engineVars, parityVars, recordVars, saveVars, appVars, visualVars, followVars >>
nonSmokeVars == << editVars, gapVars, trimVars, cursorVars, trackVars, loadVars, exportVars, engineVars, parityVars, recordVars, saveVars, appVars, visualVars, followVars >>
nonExportVars == << editVars, gapVars, trimVars, cursorVars, trackVars, loadVars, smokeVars, engineVars, parityVars, recordVars, saveVars, appVars, visualVars, followVars >>
nonEngineVars == << editVars, gapVars, trimVars, cursorVars, trackVars, loadVars, smokeVars, exportVars, parityVars, recordVars, saveVars, appVars, visualVars, followVars >>
nonParityVars == << editVars, gapVars, trimVars, cursorVars, trackVars, loadVars, smokeVars, exportVars, engineVars, recordVars, saveVars, appVars, visualVars, followVars >>
nonRecordVars == << editVars, gapVars, trimVars, cursorVars, trackVars, loadVars, smokeVars, exportVars, engineVars, parityVars, saveVars, appVars, visualVars, followVars >>
nonSaveVars == << editVars, gapVars, trimVars, cursorVars, trackVars, loadVars, smokeVars, exportVars, engineVars, parityVars, recordVars, appVars, visualVars, followVars >>
nonAppVars == << editVars, gapVars, trimVars, cursorVars, trackVars, loadVars, smokeVars, exportVars, engineVars, parityVars, recordVars, saveVars, visualVars, followVars >>
nonVisualVars == << editVars, gapVars, trimVars, cursorVars, trackVars, loadVars, smokeVars, exportVars, engineVars, parityVars, recordVars, saveVars, appVars, followVars >>
nonFollowVars == << editVars, gapVars, trimVars, cursorVars, trackVars, loadVars, smokeVars, exportVars, engineVars, parityVars, recordVars, saveVars, appVars, visualVars >>

\* The value of each component's variables while another one is being run.
EditIdle ==
  /\ durationMs = 0 /\ zoomSegments = << >> /\ dragState = << >>
  /\ selectedSegmentId = << >> /\ editError = "" /\ editCount = 0 /\ loadedValid = FALSE
  /\ lastEdit = << >>

GapIdle ==
  /\ gapSegments = << >> /\ gapDurationMs = 0 /\ gapPreferredTs = 0
  /\ gapReturned = FALSE /\ gapSlot = << >>

TrimIdle ==
  /\ trimInput = << >> /\ trimStage = 0 /\ trimOnce = << >> /\ trimTwice = << >>

CursorIdle ==
  /\ eventsFile = << >> /\ smoothingFactor = 0 /\ cursorStage = "idle"
  /\ cursorSamples = << >> /\ clickTimestamps = << >>
  /\ cursorTimelineMs = 0 /\ cursorPulseScale = 0

ZeroVelocity == [vx |-> 0, vy |-> 0, vw |-> 0, vh |-> 0]

TrackIdle ==
  /\ trackZoomSegments = << >> /\ trackDurationMs = 0 /\ trackFps = 0
  /\ trackStage = "idle" /\ trackRuntimeSegments = << >> /\ trackSamples = << >>
  /\ trackRect = FULL_RECT /\ trackVelocity = ZeroVelocity
  /\ trackPreviousTs = 0 /\ trackFrame = 0

LoadIdle ==
  /\ project = << >> /\ projectEventsFile = << >> /\ projectSelectedId = << >>
  /\ error = "" /\ eventsError = "" /\ loadedProjectPath = << >>
  /\ lastLoad = << >> /\ loadCount = 0

SmokeIdle ==
  /\ smokeFiles = << >> /\ smokeStage = "idle"
  /\ issues = << >> /\ warnings = << >> /\ infos = << >>
  /\ smokeCrashed = FALSE /\ exitCode = << >>

ExportIdle ==
  /\ exportDriver = << >> /\ exportScreen = << >>
  /\ exportCalls = << >> /\ exportLog = << >>

EngineIdle ==
  /\ engineInput = << >> /\ engineItems = << >> /\ engineCamera = << >>
  /\ engineSegments = << >> /\ engineStarts = << >> /\ engineStage = "idle"

ParityIdle ==
  /\ parityInput = << >> /\ parityStage = "idle"
  /\ parityPreviewTrack = << >> /\ parityExportTrack = << >>
  /\ parityFrame = -1 /\ parityTransforms = << >>

RecordIdle ==
  /\ recState = "off" /\ recRecordingId = << >> /\ recError = "" /\ recCalls = {}
  /\ recActions = 0 /\ ctrlHeld = FALSE /\ isCtrlPressed = FALSE
  /\ overlayWindowRef = FALSE /\ overlayHiddenRef = "null"
  /\ overlayWindow = << >> /\ overlayTasks = << >>

SaveIdle ==
  /\ isSaving = FALSE /\ saveFlight = << >> /\ saveOutcome = << >>

AppIdle ==
  /\ currentScreen = "off" /\ isEditDirty = FALSE /\ pendingAction = << >>
  /\ showUnsavedPrompt = FALSE /\ isHandlingUnsavedPrompt = FALSE
  /\ editSaveHandlerRef = FALSE /\ unsavedYesFlight = << >>
  /\ appExiting = FALSE /\ lastAppHandler = "none"

VisualIdle ==
  /\ segmentVisuals = << >> /\ visualsComputed = FALSE

FollowIdle ==
  /\ followSegment = << >> /\ followSamples = << >> /\ followPoints = << >>
  /\ followDone = FALSE

NonEditIdle == GapIdle /\ TrimIdle /\ CursorIdle /\ TrackIdle /\ LoadIdle /\ SmokeIdle /\ ExportIdle /\ EngineIdle /\ ParityIdle /\ RecordIdle /\ SaveIdle /\ AppIdle /\ VisualIdle /\ FollowIdle
NonGapIdle == EditIdle /\ TrimIdle /\ CursorIdle /\ TrackIdle /\ LoadIdle /\ SmokeIdle /\ ExportIdle /\ EngineIdle /\ ParityIdle /\ RecordIdle /\ SaveIdle /\ AppIdle /\ VisualIdle /\ FollowIdle
NonTrimIdle == EditIdle /\ GapIdle /\ CursorIdle /\ TrackIdle /\ LoadIdle /\ SmokeIdle /\ ExportIdle /\ EngineIdle /\ ParityIdle /\ RecordIdle /\ SaveIdle /\ AppIdle /\ VisualIdle /\ FollowIdle
NonCursorIdle == EditIdle /\ GapIdle /\ TrimIdle /\ TrackIdle /\ LoadIdle /\ SmokeIdle /\ ExportIdle /\ EngineIdle /\ ParityIdle /\ RecordIdle /\ SaveIdle /\ AppIdle /\ VisualIdle /\ FollowIdle
NonTrackIdle == EditIdle /\ GapIdle /\ TrimIdle /\ CursorIdle /\ LoadIdle /\ SmokeIdle /\ ExportIdle /\ EngineIdle /\ ParityIdle /\ RecordIdle /\ SaveIdle /\ AppIdle /\ VisualIdle /\ FollowIdle
NonLoadIdle == EditIdle /\ GapIdle /\ TrimIdle /\ CursorIdle /\ TrackIdle /\ SmokeIdle /\ ExportIdle /\ EngineIdle /\ ParityIdle /\ RecordIdle /\ SaveIdle /\ AppIdle /\ VisualIdle /\ FollowIdle
NonSmokeIdle == EditIdle /\ GapIdle /\ TrimIdle /\ CursorIdle /\ TrackIdle /\ LoadIdle /\ ExportIdle /\ EngineIdle /\ ParityIdle /\ RecordIdle /\ SaveIdle /\ AppIdle /\ VisualIdle /\ FollowIdle
NonExportIdle == EditIdle /\ GapIdle /\ TrimIdle /\ CursorIdle /\ TrackIdle /\ LoadIdle /\ SmokeIdle /\ EngineIdle /\ ParityIdle /\ RecordIdle /\ SaveIdle /\ AppIdle /\ VisualIdle /\ FollowIdle
NonEngineIdle == EditIdle /\ GapIdle /\ TrimIdle /\ CursorIdle /\ TrackIdle /\ LoadIdle /\ SmokeIdle /\ ExportIdle /\ ParityIdle /\ RecordIdle /\ SaveIdle /\ AppIdle /\ VisualIdle /\ FollowIdle
NonParityIdle == EditIdle /\ GapIdle /\ TrimIdle /\ CursorIdle /\ TrackIdle /\ LoadIdle /\ SmokeIdle /\ ExportIdle /\ EngineIdle /\ RecordIdle /\ SaveIdle /\ AppIdle /\ VisualIdle /\ FollowIdle
NonRecordIdle == EditIdle /\ GapIdle /\ TrimIdle /\ CursorIdle /\ TrackIdle /\ LoadIdle /\ SmokeIdle /\ ExportIdle /\ EngineIdle /\ ParityIdle /\ SaveIdle /\ AppIdle /\ VisualIdle /\ FollowIdle
NonSaveIdle == EditIdle /\ GapIdle /\ TrimIdle /\ CursorIdle /\ TrackIdle /\ LoadIdle /\ SmokeIdle /\ ExportIdle /\ EngineIdle /\ ParityIdle /\ RecordIdle /\ AppIdle /\ VisualIdle /\ FollowIdle
NonAppIdle == EditIdle /\ GapIdle /\ TrimIdle /\ CursorIdle /\ TrackIdle /\ LoadIdle /\ SmokeIdle /\ ExportIdle /\ EngineIdle /\ ParityIdle /\ RecordIdle /\ SaveIdle /\ VisualIdle /\ FollowIdle
NonVisualIdle == EditIdle /\ GapIdle /\ TrimIdle /\ CursorIdle /\ TrackIdle /\ LoadIdle /\ SmokeIdle /\ ExportIdle /\ EngineIdle /\ ParityIdle /\ RecordIdle /\ SaveIdle /\ AppIdle /\ FollowIdle
NonFollowIdle == EditIdle /\ GapIdle /\ TrimIdle /\ CursorIdle /\ TrackIdle /\ LoadIdle /\ SmokeIdle /\ ExportIdle /\ EngineIdle /\ ParityIdle /\ RecordIdle /\ SaveIdle /\ AppIdle /\ VisualIdle

\* project.durationMs; previewDurationMs equals it while no video metadata
\* has replaced it (videoDurationMs = null).
timelineDurationMs == durationMs
previewDurationMs == timelineDurationMs

\* ------------------------------------------------------------------------
\* Editor inputs
\* ------------------------------------------------------------------------
GridTimes == {k * GridStepMs : k \in 0..(TimelineDurationMs \div GridStepMs)}
DragDeltasMs == {-TimelineDurationMs, -GridStepMs, 0, GridStepMs, TimelineDurationMs}
PlayheadPositionsMs == {0, TimelineDurationMs \div 2, TimelineDurationMs}
SampleRects == {FULL_RECT}
\* "manual-legacy": an auto segment that was dragged and saved by the editor
\* before the mode and trigger fields existed (both absent, "" here): it is
\* manual and still carries its target points.
SegmentKinds == {"manual-fixed", "auto", "manual-legacy"}
ZoomSliderValues == {100}
PositionSliderValues == {500}

\* A segment as stored in project.json.
StoredSegment(id, startTs, endTs, kind) ==
  [id |-> id, startTs |-> startTs, endTs |-> endTs,
   initialRect |-> << IF kind = "manual-fixed" THEN FULL_RECT ELSE DEFAULT_RECT >>,
   targetRect |-> << >>,
   targetPoints |-> IF kind # "manual-fixed"
                    THEN << [ts |-> startTs, rect |-> DEFAULT_RECT],
                            [ts |-> endTs, rect |-> DEFAULT_RECT] >>
                    ELSE << >>,
   spring |-> << DEFAULT_SPRING >>, panTrajectory |-> << >>,
   mode |-> CASE kind = "manual-fixed" -> "fixed"
              [] kind = "auto" -> "follow-cursor"
              [] kind = "manual-legacy" -> "",
   trigger |-> CASE kind = "manual-fixed" -> "manual"
                 [] kind = "auto" -> "auto-click"
                 [] kind = "manual-legacy" -> "",
   isAuto |-> (kind = "auto")]

\* The segment invariants of the data model, on a list in startTs order.
SegmentsValid(segments, timelineDuration) ==
  /\ \A i \in 1..Len(segments) :
       /\ segments[i].endTs - segments[i].startTs >= MIN_SEGMENT_MS
       /\ segments[i].startTs >= 0
       /\ segments[i].endTs <= timelineDuration
  /\ \A i \in 1..(Len(segments) - 1) :
       segments[i + 1].startTs - segments[i].endTs >= MIN_SEGMENT_GAP_MS

\* Segments in startTs order that lie inside the timeline, have positive
\* length and do not overlap (neighbours may touch).
SegmentsNonOverlapping(segments, timelineDuration) ==
  /\ \A i \in 1..Len(segments) :
       /\ segments[i].endTs > segments[i].startTs
       /\ segments[i].startTs >= 0
       /\ segments[i].endTs <= timelineDuration
  /\ \A i \in 1..(Len(segments) - 1) :
       segments[i + 1].startTs - segments[i].endTs >= 0

TimelineTimes(tl) == [i \in 1..Len(tl) |-> [startTs |-> tl[i][1], endTs |-> tl[i][2]]]

\* Project files the editor can be given: non-overlapping timelines, among
\* them the ones that satisfy the segment invariants.
LoadableTimelines ==
  {tl \in UNION {[1..n -> (GridTimes \X GridTimes \X SegmentKinds)] : n \in 0..MaxInitSegments} :
     SegmentsNonOverlapping(TimelineTimes(tl), TimelineDurationMs)}

LoadedTimeline(tl) ==
  sortSegments([i \in 1..Len(tl) |-> StoredSegment(i, tl[i][1], tl[i][2], tl[i][3])])

\* ------------------------------------------------------------------------
\* Editor: initial state (a project has been loaded by loadProjectByPath)
\* ------------------------------------------------------------------------
EditLoaded(tl, segments, timelineDuration) ==
  /\ zoomSegments = segments
  /\ selectedSegmentId = IF Len(segments) > 0 THEN << segments[1].id >> ELSE << >>
  /\ loadedValid = SegmentsValid(TimelineTimes(tl), timelineDuration)

EditInit ==
  /\ durationMs = TimelineDurationMs
  /\ \E tl \in LoadableTimelines : EditLoaded(tl, LoadedTimeline(tl), TimelineDurationMs)
  /\ dragState = << >>
  /\ editError = ""
  /\ editCount = 0
  /\ lastEdit = << >>
  /\ NonEditIdle

\* timelineSegments = sortSegments(project.timeline.zoomSegments)
timelineSegments == sortSegments(zoomSegments)

\* project.timeline.zoomSegments.find(id = segmentId) ?? null
findSegment(segments, segmentId) ==
  LET At(index) == IF index = 0 THEN << >> ELSE << segments[index] >>
  IN IF segmentId = << >> THEN << >>
     ELSE At(FirstTrue([i \in 1..Len(segments) |-> segments[i].id = segmentId[1]]))

selectedSegment == findSegment(zoomSegments, selectedSegmentId)

\* updateSegment(segmentId, updater): map the one segment, then sortSegments.
updateSegmentList(segments, segmentId, updated) ==
  sortSegments([i \in 1..Len(segments) |->
                  IF segments[i].id = segmentId THEN updated ELSE segments[i]])

\* ------------------------------------------------------------------------
\* Editor: actions
\* ------------------------------------------------------------------------
\* Every run of a handler that calls setProject counts as one edit; traces
\* are cut after MaxEdits edits.
CountEdit == editCount < MaxEdits /\ editCount' = editCount + 1

\* Records which handler edited which segment.
ManualEdit(op, segmentId) ==
  lastEdit' = << [op |-> op, segmentId |-> segmentId] >>

\* startDragSegment(event, segment, mode), segment taken from timelineSegments.
StartDragSegment ==
  LET Start(segment, mode) ==
        /\ selectedSegmentId' = << segment.id >>
        /\ dragState' = << [segmentId |-> segment.id, mode |-> mode,
                            initialStartTs |-> segment.startTs,
                            initialEndTs |-> segment.endTs] >>
      StartOn(segments) ==
        \E i \in 1..Len(segments), mode \in {"move", "start", "end"} : Start(segments[i], mode)
  IN /\ dragState = << >>
     /\ editCount < MaxEdits
     /\ StartOn(timelineSegments)
     /\ UNCHANGED << durationMs, zoomSegments, editError, editCount, loadedValid, lastEdit, nonEditVars >>

onPointerMoveSegments(segments, drag, deltaTimelineMs) ==
  LET Dragged(segment, neighbors) ==
        IF segment.id # drag.segmentId THEN segment
        ELSE IF drag.mode = "move"
          THEN dragMoveSegment(segment, drag, neighbors, deltaTimelineMs, timelineDurationMs)
        ELSE IF drag.mode = "start"
          THEN dragResizeStart(segment, drag, neighbors, deltaTimelineMs)
        ELSE dragResizeEnd(segment, drag, neighbors, deltaTimelineMs, timelineDurationMs)
      Mapped(neighbors) ==
        sortSegments([i \in 1..Len(segments) |-> Dragged(segments[i], neighbors)])
  IN Mapped(getSegmentNeighborBounds(segments, drag.segmentId, timelineDurationMs))

\* onPointerMove(event): a pointer displacement of deltaPreviewMs preview ms.
PointerMoveBy(deltaPreviewMs) ==
  /\ dragState # << >>
  /\ timelineDurationMs > 0
  /\ previewDurationMs > 0
  /\ zoomSegments' = onPointerMoveSegments(
                       zoomSegments, dragState[1],
                       RoundDiv(deltaPreviewMs * timelineDurationMs, previewDurationMs))
  /\ ManualEdit(dragState[1].mode, dragState[1].segmentId)
  /\ CountEdit
  /\ UNCHANGED << durationMs, dragState, selectedSegmentId, editError, loadedValid, nonEditVars >>

PointerMove == \E deltaPreviewMs \in DragDeltasMs : PointerMoveBy(deltaPreviewMs)

\* onPointerUp
PointerUp ==
  /\ dragState # << >>
  /\ dragState' = << >>
  /\ UNCHANGED << durationMs, zoomSegments, selectedSegmentId, editError, editCount,
                  loadedValid, lastEdit, nonEditVars >>

\* The segment handleAddSegment builds for a slot; rect is the camera-track
\* sample at the playhead.
newManualSegment(id, slot, rect) ==
  [id |-> id, startTs |-> slot.startTs, endTs |-> slot.endTs,
   initialRect |-> << normalizeRect(rect) >>, targetRect |-> << >>,
   targetPoints |-> << >>, spring |-> << DEFAULT_SPRING >>, panTrajectory |-> << >>,
   mode |-> "fixed", trigger |-> "manual", isAuto |-> FALSE]

\* The id `manual-${Date.now()}`: a token no segment of the list carries.
freshSegmentId(segments) ==
  CHOOSE id \in 1..(Len(segments) + 1) :
    /\ \A i \in 1..Len(segments) : segments[i].id # id
    /\ \A other \in 1..(id - 1) : \E i \in 1..Len(segments) : segments[i].id = other

\* handleAddSegment ("Add Zoom"); playheadRef.current is read at the click.
AddSegment ==
  LET Insert(slot, nextId) ==
        IF slot = << >>
        THEN /\ editError' = "No free space on timeline for a new zoom segment."
             /\ UNCHANGED << zoomSegments, selectedSegmentId, lastEdit >>
        ELSE /\ \E rect \in SampleRects :
                  zoomSegments' = sortSegments(Append(zoomSegments,
                                                      newManualSegment(nextId, slot[1], rect)))
             /\ selectedSegmentId' = << nextId >>
             /\ ManualEdit("add", nextId)
             /\ UNCHANGED editError
  IN /\ dragState = << >>
     /\ Len(zoomSegments) < MaxSegments
     /\ \E playheadMs \in PlayheadPositionsMs :
          Insert(findAvailableGapForSegment(
                   zoomSegments, timelineDurationMs,
                   mapTimeMs(playheadMs, previewDurationMs, timelineDurationMs)),
                 freshSegmentId(zoomSegments))
     /\ CountEdit
     /\ UNCHANGED << durationMs, dragState, loadedValid, nonEditVars >>

\* handleDeleteSelectedSegment
DeleteSelectedSegment ==
  LET Remove(segment) ==
        zoomSegments' = SelectSeq(zoomSegments, LAMBDA other : other.id # segment.id)
      Reselect(nextSegments) ==
        selectedSegmentId' = IF Len(nextSegments) > 0 THEN << nextSegments[1].id >> ELSE << >>
  IN /\ dragState = << >>
     /\ selectedSegment # << >>
     /\ Remove(selectedSegment[1])
     /\ Reselect(zoomSegments')
     /\ ManualEdit("delete", selectedSegment[1].id)
     /\ CountEdit
     /\ UNCHANGED << durationMs, dragState, editError, loadedValid, nonEditVars >>

\* onClick of a timeline segment block
SelectSegment ==
  LET SelectOn(segments) ==
        \E i \in 1..Len(segments) :
          /\ selectedSegmentId # << segments[i].id >>
          /\ selectedSegmentId' = << segments[i].id >>
  IN /\ dragState = << >>
     /\ editCount < MaxEdits
     /\ SelectOn(timelineSegments)
     /\ UNCHANGED << durationMs, zoomSegments, dragState, editError, editCount, loadedValid, lastEdit, nonEditVars >>

\* applySelectedSegmentRect(centerX, centerY, zoomStrength) from the Zoom
\* Strength / Position X / Position Y sliders.
ApplySelectedSegmentRect ==
  LET Apply(segment, base, centerX, centerY, zoomCenti) ==
        zoomSegments' = updateSegmentList(zoomSegments, segment.id,
          [updateSegmentBaseRect(segment,
             buildRectFromCenterZoom(centerX, centerY, zoomCenti,
                                     base.width, Max(base.height, MIN_RECT_SIZE)))
           EXCEPT !.isAuto = FALSE])
      Sliders(segment, base) ==
        \/ \E zoom \in ZoomSliderValues :
             Apply(segment, base, base.x + base.width \div 2, base.y + base.height \div 2, zoom)
        \/ \E centerX \in PositionSliderValues :
             Apply(segment, base, centerX, base.y + base.height \div 2,
                   (RectScale * 100) \div Max(base.width, base.height))
        \/ \E centerY \in PositionSliderValues :
             Apply(segment, base, base.x + base.width \div 2, centerY,
                   (RectScale * 100) \div Max(base.width, base.height))
      OnSelected(segment) == Sliders(segment, getSegmentBaseRect(segment))
  IN /\ dragState = << >>
     /\ selectedSegment # << >>
     /\ OnSelected(selectedSegment[1])
     /\ ManualEdit("rect", selectedSegment[1].id)
     /\ CountEdit
     /\ UNCHANGED << durationMs, dragState, selectedSegmentId, editError, loadedValid, nonEditVars >>

\* Camera Mode select onChange
ChangeCameraMode ==
  LET SetMode(segment, mode) ==
        zoomSegments' = updateSegmentList(zoomSegments, segment.id,
          [normalizeZoomSegment(segment) EXCEPT
             !.mode = mode,
             !.targetPoints = IF mode = "fixed" THEN << >> ELSE segment.targetPoints,
             !.isAuto = FALSE])
  IN /\ dragState = << >>
     /\ selectedSegment # << >>
     /\ \E mode \in {"fixed", "follow-cursor"} : SetMode(selectedSegment[1], mode)
     /\ ManualEdit("mode", selectedSegment[1].id)
     /\ CountEdit
     /\ UNCHANGED << durationMs, dragState, selectedSegmentId, editError, loadedValid, nonEditVars >>

\* The runtimeSegments memo of the Edit screen.
runtimeSegments == toRuntimeSegments(timelineSegments, cursorSamples, 1920, 1080)

\* projectForSave.timeline.zoomSegments of handleSaveProject; runtimeById is
\* a Map, so the last runtime segment with an id is the one it returns.
projectForSaveSegments(segments, runtime) ==
  LET WithId(id) == {k \in 1..Len(runtime) : runtime[k].id = id}
      Latest(found) == runtime[CHOOSE k \in found : \A other \in found : other <= k]
      ForSave(segment) ==
        IF segment.mode # "follow-cursor" THEN segment
        ELSE IF WithId(segment.id) = {} THEN segment
        ELSE [segment EXCEPT !.targetPoints = Latest(WithId(segment.id)).targetPoints]
  IN sortSegments([i \in 1..Len(segments) |-> ForSave(normalizeZoomSegment(segments[i]))])

\* handleSaveProject: save_project resolves (setProject(projectForSave)) or
\* rejects (setError(String(err))); isSaving is true only in between.
SaveProject ==
  /\ \/ /\ zoomSegments' = projectForSaveSegments(zoomSegments, runtimeSegments)
        /\ editError' = ""
     \/ /\ editError' = "save_project failed"
        /\ UNCHANGED zoomSegments
  /\ CountEdit
  /\ UNCHANGED << durationMs, dragState, selectedSegmentId, loadedValid, lastEdit,
                  nonEditVars >>

EditNext ==
  \/ StartDragSegment
  \/ PointerMove
  \/ PointerUp
  \/ AddSegment
  \/ DeleteSelectedSegment
  \/ SelectSegment
  \/ ApplySelectedSegmentRect
  \/ ChangeCameraMode
  \/ SaveProject

SpecEdit == EditInit /\ [][EditNext]_vars

\* ------------------------------------------------------------------------
\* Editor: timeline properties
\* ------------------------------------------------------------------------
\* Consecutive segments in startTs order are at least minGap apart.
GapsAtLeast(segments, minGap) ==
  \A i \in 1..(Len(segments) - 1) : segments[i + 1].startTs - segments[i].endTs >= minGap

\* C1: starting from a timeline that satisfies the segment invariants, after
\* any sequence of editor operations every pair of consecutive segments in
\* startTs order is at least MIN_SEGMENT_GAP_MS apart.
C1_GapKeptByEdits ==
  loadedValid => GapsAtLeast(SortByStartTs(zoomSegments), MIN_SEGMENT_GAP_MS)

\* C2: starting from a timeline that satisfies the segment invariants, after
\* any sequence of editor operations every segment is at least
\* MIN_SEGMENT_MS long.
C2_LengthKeptByEdits ==
  loadedValid =>
    \A i \in 1..Len(zoomSegments) :
      zoomSegments[i].endTs - zoomSegments[i].startTs >= MIN_SEGMENT_MS

\* C7: starting from a non-overlapping timeline, every segment list the edit
\* path produces is sorted by startTs and no two of its segments overlap.
C7_EditsNeverOverlap ==
  /\ \A i \in 1..(Len(zoomSegments) - 1) :
       zoomSegments[i].startTs <= zoomSegments[i + 1].startTs
  /\ GapsAtLeast(zoomSegments, 0)

\* C12: in every project state the editor holds, every stored target point
\* of a segment has a timestamp inside the segment: startTs <= ts <= endTs.
C12_TargetPointsInsideSegment ==
  \A i \in 1..Len(zoomSegments) :
    \A k \in 1..Len(zoomSegments[i].targetPoints) :
      /\ zoomSegments[i].startTs <= zoomSegments[i].targetPoints[k].ts
      /\ zoomSegments[i].targetPoints[k].ts <= zoomSegments[i].endTs

\* C13: every segment whose mode is fixed has an empty targetPoints list, in
\* the project the editor holds and in the project handleSaveProject passes
\* to save_project.
C13_FixedSegmentsHaveNoTargetPoints ==
  LET NoPointsWhenFixed(segments) ==
        \A i \in 1..Len(segments) :
          segments[i].mode = "fixed" => segments[i].targetPoints = << >>
  IN /\ NoPointsWhenFixed(zoomSegments)
     /\ NoPointsWhenFixed(projectForSaveSegments(zoomSegments, runtimeSegments))

\* ------------------------------------------------------------------------
\* Manual edits on a long timeline: two-segment projects of 6 to 7 seconds
\* ------------------------------------------------------------------------
LongDurationsMs == {6000, 7000}
LongSegmentTimes == {<< 1000, 3000 >>, << 4000, 6000 >>, << 0, 3000 >>, << 3000, 6000 >>}
LongDragDeltasMs == {-2800, 2800}
LongSegmentKinds == {"manual-fixed", "auto"}

LongTimelines ==
  LET Stored == {<< times[1], times[2], kind >> : times \in LongSegmentTimes,
                                                  kind \in LongSegmentKinds}
  IN {tl \in UNION {[1..n -> Stored] : n \in 0..MaxInitSegments} :
        \A duration \in LongDurationsMs : SegmentsNonOverlapping(TimelineTimes(tl), duration)}

LongInit ==
  /\ durationMs \in LongDurationsMs
  /\ \E tl \in LongTimelines : EditLoaded(tl, LoadedTimeline(tl), durationMs)
  /\ dragState = << >>
  /\ editError = ""
  /\ editCount = 0
  /\ lastEdit = << >>
  /\ NonEditIdle

PointerMoveLong == \E deltaPreviewMs \in LongDragDeltasMs : PointerMoveBy(deltaPreviewMs)

LongNext ==
  \/ StartDragSegment
  \/ PointerMoveLong
  \/ PointerUp
  \/ AddSegment
  \/ ApplySelectedSegmentRect
  \/ ChangeCameraMode

SpecLongEdit == LongInit /\ [][LongNext]_vars

\* The start and end times of a segment list.
SegmentTimes(segments) == [i \in 1..Len(segments) |-> << segments[i].startTs, segments[i].endTs >>]

\* C14: every manual edit of a segment (move-drag, resize-start drag,
\* resize-end drag, rect change through the zoom/position controls, camera
\* mode change) leaves that segment with isAuto = false, and a segment
\* created by Add Zoom has isAuto = false.
C14_ManualEditClearsIsAuto ==
  (lastEdit # << >> /\ lastEdit[1].op \in {"move", "start", "end", "rect", "mode", "add"}) =>
    \A i \in 1..Len(zoomSegments) :
      zoomSegments[i].id = lastEdit[1].segmentId => zoomSegments[i].isAuto = FALSE

\* An auto segment has been resized at its end and is manual now.
C14_AutoSegmentResized ==
  /\ lastEdit # << >>
  /\ lastEdit[1].op = "end"
  /\ \E i \in 1..Len(zoomSegments) :
       /\ zoomSegments[i].id = lastEdit[1].segmentId
       /\ zoomSegments[i].trigger = "auto-click"
       /\ zoomSegments[i].isAuto = FALSE

\* C15: with exactly the two segments [1000,3000] and [4000,6000] on a
\* timeline of at least 6000 ms, a move-drag of the first segment whose raw
\* start is 3800 (pointer displacement 2800 ms) leaves the first segment at
\* [1800,3800] and the second segment unchanged.
C15_MoveDragCappedByNextSegment ==
  [][(/\ durationMs >= 6000
      /\ SegmentTimes(zoomSegments) = << << 1000, 3000 >>, << 4000, 6000 >> >>
      /\ dragState = << [segmentId |-> zoomSegments[1].id, mode |-> "move",
                         initialStartTs |-> 1000, initialEndTs |-> 3000] >>
      /\ PointerMoveBy(2800))
     => /\ SegmentTimes(zoomSegments') = << << 1800, 3800 >>, << 4000, 6000 >> >>
        /\ zoomSegments'[2] = zoomSegments[2]]_vars

\* The first of the two segments has been move-dragged from [1000,3000] up
\* to the second one.
C15_FirstSegmentMovedToCap ==
  /\ SegmentTimes(zoomSegments) = << << 1800, 3800 >>, << 4000, 6000 >> >>
  /\ dragState = << [segmentId |-> zoomSegments[1].id, mode |-> "move",
                     initialStartTs |-> 1000, initialEndTs |-> 3000] >>
  /\ lastEdit = << [op |-> "move", segmentId |-> zoomSegments[1].id] >>

\* ------------------------------------------------------------------------
\* Project loading: loadProjectByPath on the files of a project folder
\* ------------------------------------------------------------------------
ProjectPaths == {"a/project.json", "b/project.json"}
LoadSegmentTimes == {<< 0, 400 >>, << 200, 600 >>, << 600, 800 >>}

\* What invoke("get_project") can resolve with: segment lists in any file
\* order, overlapping ones included (the command is outside the editor).
ProjectFiles ==
  LET Stored == {<< times[1], times[2], kind >> : times \in LoadSegmentTimes,
                                                  kind \in LongSegmentKinds}
      Segments(tl) == [i \in 1..Len(tl) |-> StoredSegment(i, tl[i][1], tl[i][2], tl[i][3])]
      File(tl) == [id |-> "rec-1", durationMs |-> TimelineDurationMs,
                   zoomSegments |-> Segments(tl)]
  IN {File(tl) : tl \in UNION {[1..n -> Stored] : n \in 0..MaxInitSegments}}

\* What invoke("get_events") can resolve with.
EventsFiles ==
  {[recordingId |-> "rec-1", screenWidth |-> 512, screenHeight |-> 512, events |-> << >>]}

LoadInit ==
  /\ project = << >> /\ projectEventsFile = << >> /\ projectSelectedId = << >>
  /\ error = "" /\ eventsError = "" /\ loadedProjectPath = << >>
  /\ lastLoad = << >> /\ loadCount = 0
  /\ NonLoadIdle

\* loadProjectByPath(projectPath); loaded and loadedEvents are << >> when the
\* invoke rejects.
LoadProjectByPath ==
  LET Installed(loaded, sorted) == [loaded EXCEPT !.zoomSegments = sorted]
      Resolved(projectPath, loaded, loadedEvents, sorted) ==
        /\ project' = << Installed(loaded, sorted) >>
        /\ projectEventsFile' = loadedEvents
        /\ projectSelectedId' = IF Len(sorted) > 0 THEN << sorted[1].id >> ELSE << >>
        /\ loadedProjectPath' = << projectPath >>
        /\ error' = ""
        /\ eventsError' = IF loadedEvents = << >> THEN "Failed to load events" ELSE ""
      Rejected ==
        /\ project' = << >>
        /\ projectEventsFile' = << >>
        /\ projectSelectedId' = << >>
        /\ error' = "get_project failed"
        /\ eventsError' = ""
        /\ UNCHANGED loadedProjectPath
      Load(projectPath, loaded, loadedEvents) ==
        /\ lastLoad' = << [projectPath |-> projectPath, project |-> loaded,
                           events |-> loadedEvents] >>
        /\ \/ /\ loaded # << >>
              /\ Resolved(projectPath, loaded[1], loadedEvents,
                          sortSegments(loaded[1].zoomSegments))
           \/ /\ loaded = << >>
              /\ Rejected
  IN /\ loadCount < MaxLoads
     /\ loadCount' = loadCount + 1
     /\ \E projectPath \in ProjectPaths,
           loaded \in {<< >>} \cup {<< file >> : file \in ProjectFiles},
           loadedEvents \in {<< >>} \cup {<< file >> : file \in EventsFiles} :
          Load(projectPath, loaded, loadedEvents)
     /\ UNCHANGED nonLoadVars

LoadNext == LoadProjectByPath

SpecLoad == LoadInit /\ [][LoadNext]_vars

\* C16: loading a project whose zoom segments overlap fails, and the editor
\* does not install that project as its current project state.
C16_OverlappingProjectNotInstalled ==
  LET Overlapping(sorted) ==
        \E i \in 1..(Len(sorted) - 1) : sorted[i + 1].startTs < sorted[i].endTs
      FailsOn(call) ==
        (call.project # << >> /\ Overlapping(SortByStartTs(call.project[1].zoomSegments)))
          => (project = << >> /\ error # "")
  IN lastLoad # << >> => FailsOn(lastLoad[1])

\* C17: a load is all-or-nothing: when get_project or get_events fails, the
\* editor holds nothing of that load, neither its project nor its events.
C17_LoadIsAllOrNothing ==
  LET Nothing(call) ==
        (call.project = << >> \/ call.events = << >>)
          => (project = << >> /\ projectEventsFile = << >>)
  IN lastLoad # << >> => Nothing(lastLoad[1])

\* ------------------------------------------------------------------------
\* Gap search: findAvailableGapForSegment on arbitrary segment lists
\* ------------------------------------------------------------------------
\* Segment bounds on and off the timeline, in any order (a start may lie
\* after its end, segments may overlap, the list need not be sorted).
GapTimes == {-GridStepMs, 0, 300, 600, TimelineDurationMs, TimelineDurationMs + GridStepMs}
LongTimelineDurationMs == 2400
GapDurations == {100, TimelineDurationMs, LongTimelineDurationMs}
GapPreferredTimes == {0, 400, 700, TimelineDurationMs + GridStepMs}

GapSegmentLists ==
  UNION {[1..n -> [startTs : GapTimes, endTs : GapTimes]] : n \in 0..MaxGapSegments}

GapInit ==
  /\ gapSegments \in GapSegmentLists
  /\ gapDurationMs \in GapDurations
  /\ gapPreferredTs \in GapPreferredTimes
  /\ gapReturned = FALSE
  /\ gapSlot = << >>
  /\ NonGapIdle

\* One call of findAvailableGapForSegment.
FindGap ==
  /\ ~gapReturned
  /\ gapReturned' = TRUE
  /\ gapSlot' = findAvailableGapForSegment(gapSegments, gapDurationMs, gapPreferredTs)
  /\ UNCHANGED << gapSegments, gapDurationMs, gapPreferredTs, nonGapVars >>

GapNext == FindGap

SpecGap == GapInit /\ [][GapNext]_vars

\* C5: a slot returned by findAvailableGapForSegment overlaps no segment of
\* the list it was searched in: it ends at or before the segment's start or
\* starts at or after the segment's end.
C5_SlotOverlapsNoSegment ==
  (gapReturned /\ gapSlot # << >>) =>
    \A i \in 1..Len(gapSegments) :
      \/ gapSlot[1].endTs <= gapSegments[i].startTs
      \/ gapSlot[1].startTs >= gapSegments[i].endTs

\* A slot was returned that lies between two segments of the list and is
\* cut short by the second one.
C5_SlotBetweenSegments ==
  /\ gapReturned /\ gapSlot # << >> /\ Len(gapSegments) = 2
  /\ gapSegments[1].startTs < gapSegments[1].endTs
  /\ gapSegments[1].endTs < gapSlot[1].startTs
  /\ gapSlot[1].endTs < gapSegments[2].startTs
  /\ gapSegments[2].startTs < gapSegments[2].endTs
  /\ gapSlot[1].endTs - gapSlot[1].startTs < ADD_SEGMENT_LENGTH_MS

\* ------------------------------------------------------------------------
\* Trimming: trimAutoNoopSegment on arbitrary segments
\* ------------------------------------------------------------------------
\* Target-point times before, at, inside and after the segment; rects that
\* are full-frame (no zoom), zoomed in, or not yet normalized.
TrimStartTimes == {0, 200}
TrimEndTimes == {200, 600}
TrimPointTimes == {-100, 0, 300, 500, 600, 900}
TrimRects == {FULL_RECT, DEFAULT_RECT, [x |-> 900, y |-> 0, width |-> 600, height |-> 30]}
TrimPanTrajectories == {<< >>, << [ts |-> 100, offsetX |-> 0, offsetY |-> 0],
                                  [ts |-> 400, offsetX |-> 100, offsetY |-> 0] >>}

TrimPointLists ==
  UNION {[1..n -> [ts : TrimPointTimes, rect : TrimRects]] : n \in 0..MaxTrimPoints}

TrimSegment(startTs, endTs, isAuto, initialRect, targetPoints, panTrajectory) ==
  [id |-> 1, startTs |-> startTs, endTs |-> endTs, initialRect |-> << initialRect >>,
   targetRect |-> << >>, targetPoints |-> targetPoints, spring |-> << DEFAULT_SPRING >>,
   panTrajectory |-> panTrajectory, mode |-> IF isAuto THEN "follow-cursor" ELSE "fixed",
   trigger |-> IF isAuto THEN "auto-click" ELSE "manual", isAuto |-> isAuto]

TrimInit ==
  /\ \E startTs \in TrimStartTimes, endTs \in TrimEndTimes, isAuto \in BOOLEAN,
        initialRect \in {FULL_RECT, DEFAULT_RECT}, targetPoints \in TrimPointLists,
        panTrajectory \in TrimPanTrajectories :
       trimInput = << TrimSegment(startTs, endTs, isAuto, initialRect, targetPoints,
                                  panTrajectory) >>
  /\ trimStage = 0
  /\ trimOnce = << >>
  /\ trimTwice = << >>
  /\ NonTrimIdle

\* trimAutoNoopSegment(s)
TrimFirst ==
  /\ trimStage = 0
  /\ trimStage' = 1
  /\ trimOnce' = trimAutoNoopSegment(trimInput[1])
  /\ UNCHANGED << trimInput, trimTwice, nonTrimVars >>

\* trimAutoNoopSegment applied to the result; a dropped segment (null) is
\* not passed on (sortSegments filters it out).
TrimSecond ==
  /\ trimStage = 1
  /\ trimStage' = 2
  /\ trimTwice' = IF trimOnce = << >> THEN << >> ELSE trimAutoNoopSegment(trimOnce[1])
  /\ UNCHANGED << trimInput, trimOnce, nonTrimVars >>

TrimNext == TrimFirst \/ TrimSecond

SpecTrim == TrimInit /\ [][TrimNext]_vars

\* C6: trimAutoNoopSegment is idempotent: a dropped segment stays dropped,
\* and a kept one comes out of a second application with the same startTs,
\* endTs, initialRect and targetPoints.
C6_TrimIdempotent ==
  (trimStage = 2 /\ trimOnce # << >>) =>
    /\ trimTwice # << >>
    /\ trimTwice[1].startTs = trimOnce[1].startTs
    /\ trimTwice[1].endTs = trimOnce[1].endTs
    /\ trimTwice[1].initialRect = trimOnce[1].initialRect
    /\ trimTwice[1].targetPoints = trimOnce[1].targetPoints

\* An auto segment whose start was moved by the first application, and that
\* has been through the second one.
C6_TrimmedTwice ==
  /\ trimStage = 2 /\ trimInput[1].isAuto
  /\ trimOnce # << >> /\ trimOnce[1].startTs > trimInput[1].startTs
  /\ Len(trimOnce[1].targetPoints) >= 2
  /\ trimTwice = trimOnce

\* C11: every auto segment retained after trimming starts where the zoom is
\* effective: its initialRect and the rect of its first target point have
\* zoom strength > 1 + EFFECTIVE_ZOOM_EPSILON.
C11_TrimmedStartsEffective ==
  (trimStage >= 1 /\ trimInput[1].isAuto /\ trimOnce # << >>) =>
    /\ getZoomStrengthEffective(trimOnce[1].initialRect[1])
    /\ getZoomStrengthEffective(trimOnce[1].targetPoints[1].rect)
    /\ getZoomStrengthEffective(getSegmentTargetPoints(trimOnce[1])[1].rect)

\* ------------------------------------------------------------------------
\* Cursor pipeline on one events file: the cursorSamples and clickTimestamps
\* memos of the Edit screen, then the cursor part of renderPreviewFrame
\* ------------------------------------------------------------------------
CursorEventTimes == {0, 100, 165}
CursorFrameTimes == {0, 65, 100, 165, 250, 251}
CursorPixelPoints == {<< 400, 14 >>, << 14, 400 >>, << 600, -10 >>}
CursorScreenSizes == {<< 512, 512 >>, << 0, 512 >>}
SmoothingFactors == {0, 80, 100}

CursorEvents ==
  {[type |-> type, ts |-> ts, x |-> point[1], y |-> point[2]] :
     type \in {"move", "click"}, ts \in CursorEventTimes, point \in CursorPixelPoints}
  \cup {[type |-> "keyDown", ts |-> ts] : ts \in CursorEventTimes}

LoadableEventsFiles ==
  {<< >>} \cup
  {<< [screenWidth |-> size[1], screenHeight |-> size[2], events |-> events] >> :
     size \in CursorScreenSizes,
     events \in UNION {[1..n -> CursorEvents] : n \in 0..MaxEvents}}

CursorInit ==
  /\ eventsFile \in LoadableEventsFiles
  /\ smoothingFactor \in SmoothingFactors
  /\ cursorStage = "loaded"
  /\ cursorSamples = << >> /\ clickTimestamps = << >>
  /\ cursorTimelineMs = 0 /\ cursorPulseScale = 0
  /\ NonCursorIdle

\* The two useMemo computations of a render.
ComputeCursorMemos ==
  /\ cursorStage = "loaded"
  /\ cursorSamples' = extractCursorSamples(eventsFile, smoothingFactor)
  /\ clickTimestamps' = extractClickTimestamps(eventsFile)
  /\ cursorStage' = "ready"
  /\ UNCHANGED << eventsFile, smoothingFactor, cursorTimelineMs, cursorPulseScale,
                  nonCursorVars >>

\* renderPreviewFrame, the cursor's pulse at the frame's cursorTimelineMs.
DrawCursorFrame ==
  /\ cursorStage \in {"ready", "drawn"}
  /\ \E ts \in CursorFrameTimes :
       /\ cursorTimelineMs' = ts
       /\ cursorPulseScale' = sampleClickPulseScale(clickTimestamps, ts)
  /\ cursorStage' = "drawn"
  /\ UNCHANGED << eventsFile, smoothingFactor, cursorSamples, clickTimestamps,
                  nonCursorVars >>

CursorNext == ComputeCursorMemos \/ DrawCursorFrame

SpecCursor == CursorInit /\ [][CursorNext]_vars

\* The click timestamps of the events file at or before ts.
ClickTimesAtOrBefore(ts) ==
  IF eventsFile = << >> THEN {}
  ELSE {eventsFile[1].events[i].ts :
          i \in {j \in 1..Len(eventsFile[1].events) :
                   /\ eventsFile[1].events[j].type = "click"
                   /\ eventsFile[1].events[j].ts <= ts}}

LatestOf(times) == CHOOSE t \in times : \A u \in times : u <= t

CursorFrameAfterClick ==
  cursorStage = "drawn" /\ ClickTimesAtOrBefore(cursorTimelineMs) # {}

\* C8 (as the code has it): with tc the latest click at or before the sampled
\* time, the pulse scale is 1 at tc itself, reaches its minimum 0.82 at
\* tc + CLICK_PULSE_DOWN_MS (65 ms), is back at 1 at tc + CLICK_PULSE_TOTAL_MS
\* (150 ms), and is never below the minimum.
C8_PulseIsOneAtClickAndMinimalAfterPress ==
  CursorFrameAfterClick =>
    LET Holds(tc) ==
          /\ cursorTimelineMs = tc => cursorPulseScale = FloatOne
          /\ cursorTimelineMs = tc + CLICK_PULSE_DOWN_MS
               => cursorPulseScale = FLOAT_CLICK_PULSE_MIN_SCALE
          /\ cursorTimelineMs = tc + CLICK_PULSE_TOTAL_MS => cursorPulseScale = FloatOne
          /\ cursorPulseScale >= FLOAT_CLICK_PULSE_MIN_SCALE
          /\ cursorPulseScale <= FloatOne
    IN Holds(LatestOf(ClickTimesAtOrBefore(cursorTimelineMs)))

\* C8 as stated: at the instant tc of the latest click at or before the
\* sampled time, the click-pulse scale is at its minimum 0.82.
C8_PulseMinimalAtClick ==
  (CursorFrameAfterClick /\ cursorTimelineMs \in ClickTimesAtOrBefore(cursorTimelineMs))
    => cursorPulseScale = FLOAT_CLICK_PULSE_MIN_SCALE

\* A frame drawn at the very instant of a click, the pulse at full scale.
C8_FrameAtClickInstant ==
  /\ CursorFrameAfterClick
  /\ cursorTimelineMs \in ClickTimesAtOrBefore(cursorTimelineMs)
  /\ cursorPulseScale = FloatOne

\* C9: the cursor samples produced from any events file are strictly
\* increasing in ts: no two consecutive samples have equal timestamps.
C9_SamplesStrictlyIncreasing ==
  cursorStage \in {"ready", "drawn"} =>
    \A i \in 1..(Len(cursorSamples) - 1) : cursorSamples[i].ts < cursorSamples[i + 1].ts

\* C10: with smoothingFactor = 0 the pipeline is the identity: output sample
\* i has the ts, x and y of the i-th normalized input sample (the pointer
\* events in timestamp order, coordinates divided by the screen size and
\* kept on the screen).
C10_NoSmoothingIsIdentity ==
  (/\ cursorStage \in {"ready", "drawn"}
   /\ smoothingFactor = 0
   /\ eventsFile # << >>
   /\ eventsFile[1].screenWidth > 0 /\ eventsFile[1].screenHeight > 0)
    => cursorSamples = sortedCursorSamples(eventsFile[1])

\* ------------------------------------------------------------------------
\* Spring camera track: the runtimeSegments memo, then buildSpringCameraTrack
\* one loop pass at a time
\* ------------------------------------------------------------------------
TrackDurations == {0, 40, 90, 250}
TrackFpsValues == {0, PREVIEW_SPRING_FPS, 2000}
MIN_SIZE_RECT == [x |-> 500, y |-> 500, width |-> MIN_RECT_SIZE, height |-> MIN_RECT_SIZE]

\* Stored springs (thousandths): a light stiff undamped one, a light heavily
\* damped one, and one outside the accepted ranges.
LIGHT_STIFF_SPRING == [mass |-> 1, stiffness |-> 5000, damping |-> 0]
LIGHT_DAMPED_SPRING == [mass |-> 1, stiffness |-> 170000, damping |-> 500000]
OUT_OF_RANGE_SPRING == [mass |-> 99000, stiffness |-> 0, damping |-> 900000]

TrackSegment(id, startTs, endTs, isAuto, initialRect, targetPoints, spring) ==
  [id |-> id, startTs |-> startTs, endTs |-> endTs, initialRect |-> << initialRect >>,
   targetRect |-> << >>, targetPoints |-> targetPoints, spring |-> spring,
   panTrajectory |-> << >>, mode |-> IF isAuto THEN "follow-cursor" ELSE "fixed",
   trigger |-> IF isAuto THEN "auto-click" ELSE "manual", isAuto |-> isAuto]

TrackSegments ==
  {TrackSegment(1, 0, 200, FALSE, DEFAULT_RECT, << >>, << >>),
   TrackSegment(2, 33, 200, FALSE, MIN_SIZE_RECT, << >>, << LIGHT_STIFF_SPRING >>),
   TrackSegment(3, 0, 33, FALSE, DEFAULT_RECT, << >>, << LIGHT_DAMPED_SPRING >>),
   TrackSegment(4, 0, 200, TRUE, DEFAULT_RECT, << >>, << DEFAULT_SPRING >>),
   TrackSegment(5, 33, 33, TRUE, DEFAULT_RECT, << >>, << DEFAULT_SPRING >>),
   TrackSegment(6, 0, 200, FALSE, FULL_RECT,
                << [ts |-> 50, rect |-> MIN_SIZE_RECT], [ts |-> 17, rect |-> DEFAULT_RECT] >>,
                << OUT_OF_RANGE_SPRING >>)}

TrackInit ==
  /\ trackZoomSegments \in UNION {[1..n -> TrackSegments] : n \in 0..MaxTrackSegments}
  /\ trackDurationMs \in TrackDurations
  /\ trackFps \in TrackFpsValues
  /\ trackStage = "loaded"
  /\ trackRuntimeSegments = << >> /\ trackSamples = << >>
  /\ trackRect = FULL_RECT /\ trackVelocity = ZeroVelocity
  /\ trackPreviousTs = 0 /\ trackFrame = 0
  /\ NonTrackIdle

\* The runtimeSegments memo; the project has no events file (no cursor samples).
BuildRuntimeSegments ==
  /\ trackStage = "loaded"
  /\ trackRuntimeSegments' = toRuntimeSegments(trackZoomSegments, << >>, 1920, 1080)
  /\ trackStage' = "segments"
  /\ UNCHANGED << trackZoomSegments, trackDurationMs, trackFps, trackSamples, trackRect,
                  trackVelocity, trackPreviousTs, trackFrame, nonTrackVars >>

\* buildSpringCameraTrack up to the loop.
StartTrack ==
  /\ trackStage = "segments"
  /\ trackSamples' = << [ts |-> 0, rect |-> FULL_RECT] >>
  /\ IF trackDurationMs <= 0
     THEN trackStage' = "done" /\ UNCHANGED << trackRect, trackVelocity, trackPreviousTs, trackFrame >>
     ELSE /\ trackStage' = "loop"
          /\ trackRect' = FULL_RECT /\ trackVelocity' = ZeroVelocity
          /\ trackPreviousTs' = 0 /\ trackFrame' = 1
  /\ UNCHANGED << trackZoomSegments, trackDurationMs, trackFps, trackRuntimeSegments,
                  nonTrackVars >>

\* A loop pass that ends at "continue".
SkipFrame ==
  /\ trackStage = "loop" /\ trackPreviousTs < trackDurationMs
  /\ frameTs(trackFrame, trackFps, trackDurationMs) <= trackPreviousTs
  /\ trackFrame' = trackFrame + 1
  /\ UNCHANGED << trackZoomSegments, trackDurationMs, trackFps, trackStage,
                  trackRuntimeSegments, trackSamples, trackRect, trackVelocity,
                  trackPreviousTs, nonTrackVars >>

\* A loop pass that integrates.  From the second pass on, rect is the object
\* the last pushed sample holds, so the assignments rect.x = stepX.value, ...
\* also change that sample; normalizeRect then returns a new object.
IntegrateFrame ==
  /\ trackStage = "loop" /\ trackPreviousTs < trackDurationMs
  /\ frameTs(trackFrame, trackFps, trackDurationMs) > trackPreviousTs
  /\ LET Push(ts, stepped) ==
           /\ trackRect' = normalizeRect(stepped.rect)
           /\ trackVelocity' = stepped.velocity
           /\ trackSamples' =
                Append(IF Len(trackSamples) > 1
                       THEN [trackSamples EXCEPT ![Len(trackSamples)].rect = stepped.rect]
                       ELSE trackSamples,
                       [ts |-> ts, rect |-> normalizeRect(stepped.rect)])
           /\ trackPreviousTs' = ts
         Integrate(ts, activeSegment) ==
           Push(ts, stepRect(trackRect, trackVelocity,
                             IF activeSegment # << >>
                             THEN getTargetRectAtTs(activeSegment[1], trackPreviousTs)
                             ELSE FULL_RECT,
                             IF activeSegment # << >> THEN activeSegment[1].spring
                             ELSE DEFAULT_SPRING,
                             ts - trackPreviousTs))
     IN Integrate(frameTs(trackFrame, trackFps, trackDurationMs),
                  resolveRuntimeSegment(trackRuntimeSegments, trackPreviousTs))
  /\ trackFrame' = trackFrame + 1
  /\ UNCHANGED << trackZoomSegments, trackDurationMs, trackFps, trackStage,
                  trackRuntimeSegments, nonTrackVars >>

\* The loop condition fails: return samples.
ReturnTrack ==
  /\ trackStage = "loop" /\ trackPreviousTs >= trackDurationMs
  /\ trackStage' = "done"
  /\ UNCHANGED << trackZoomSegments, trackDurationMs, trackFps, trackRuntimeSegments,
                  trackSamples, trackRect, trackVelocity, trackPreviousTs, trackFrame,
                  nonTrackVars >>

TrackNext == BuildRuntimeSegments \/ StartTrack \/ SkipFrame \/ IntegrateFrame \/ ReturnTrack

SpecTrack == TrackInit /\ [][TrackNext]_vars

\* The NormalizedRect invariants (a NaN satisfies no comparison).
IsValidRect(rect) ==
  /\ rect.x # NaN /\ rect.y # NaN /\ rect.width # NaN /\ rect.height # NaN
  /\ rect.width >= MIN_RECT_SIZE /\ rect.width <= RectScale
  /\ rect.height >= MIN_RECT_SIZE /\ rect.height <= RectScale
  /\ rect.x >= 0 /\ rect.y >= 0
  /\ rect.x + rect.width <= RectScale /\ rect.y + rect.height <= RectScale

\* C3: every NormalizedRect produced is valid: the base rect and the target
\* points of every runtime segment, and the rect of every sample of the
\* camera track the spring integrator returns, for all springs accepted by
\* normalizeSpring.
C3_ProducedRectsValid ==
  /\ \A i \in 1..Len(trackRuntimeSegments) :
       /\ IsValidRect(trackRuntimeSegments[i].baseRect)
       /\ \A j \in 1..Len(trackRuntimeSegments[i].targetPoints) :
            IsValidRect(trackRuntimeSegments[i].targetPoints[j].rect)
  /\ trackStage = "done" => \A i \in 1..Len(trackSamples) : IsValidRect(trackSamples[i].rect)

\* C4: for every segment list, durationMs > 0 and fps, the camera track has
\* strictly increasing sample timestamps, starts at ts = 0 and, once
\* returned, ends at ts = durationMs.
C4_TrackTimestampsMonotonic ==
  (trackStage \in {"loop", "done"} /\ trackDurationMs > 0) =>
    /\ trackSamples[1].ts = 0
    /\ \A i \in 1..(Len(trackSamples) - 1) : trackSamples[i].ts < trackSamples[i + 1].ts
    /\ trackStage = "done" => Last(trackSamples).ts = trackDurationMs

\* A returned track of several samples, built at a frame rate above 1000 fps
\* (frames that round to an already emitted millisecond are skipped).
C4_TrackReturnedWithSkippedFrames ==
  /\ trackStage = "done" /\ trackDurationMs > 0
  /\ trackFps > 1000
  /\ Len(trackSamples) > 2

\* ------------------------------------------------------------------------
\* Smoke check (src/scripts/qa-smoke.mjs)
\* ------------------------------------------------------------------------
\* Numbers read from JSON: a missing or non-numeric field is NaN (Number(undefined)).
\* Rect coordinates are in units of 1/RectScale, events.scaleFactor is in hundredths.
PROJECT_SCHEMA_VERSION == 1
EVENTS_SCHEMA_VERSION == 1

isFiniteNumber(value) == value # NaN /\ value # Infinity /\ value # -Infinity

\* The three message lists of main and their push helpers; a message is the
\* check that produced it and the index (from 1) of the zoom segment it is
\* about, 0 when it is about no segment.
smokeReport == [issues |-> issues, warnings |-> warnings, infos |-> infos]
fail(report, check, segment) ==
  [report EXCEPT !.issues = Append(@, [check |-> check, segment |-> segment])]
warn(report, check, segment) ==
  [report EXCEPT !.warnings = Append(@, [check |-> check, segment |-> segment])]
info(report, check) ==
  [report EXCEPT !.infos = Append(@, [check |-> check, segment |-> 0])]
failIf(condition, report, check, segment) ==
  IF condition THEN fail(report, check, segment) ELSE report
warnIf(condition, report, check, segment) ==
  IF condition THEN warn(report, check, segment) ELSE report

\* main, the header checks of project.json and the existence checks.
checkProject(report, projectJson, eventsExists, videoExists) ==
  LET r1 == IF ~isFiniteNumber(projectJson.schemaVersion)
            THEN fail(report, "project.schemaVersion is missing or invalid", 0)
            ELSE failIf(projectJson.schemaVersion # PROJECT_SCHEMA_VERSION, report,
                        "project.schemaVersion mismatch", 0)
      r2 == failIf(projectJson.id = "", r1, "project.id is missing", 0)
      r3 == failIf(~isFiniteNumber(projectJson.durationMs) \/ projectJson.durationMs <= 0, r2,
                   "project.durationMs is missing or invalid", 0)
      r4 == failIf(~eventsExists, r3, "events file not found", 0)
  IN failIf(~videoExists, r4, "source video not found", 0)

\* main, the header checks of events.json.
checkEventsHeader(report, projectJson, eventsJson) ==
  LET r1 == IF ~isFiniteNumber(eventsJson.schemaVersion)
            THEN fail(report, "events.schemaVersion is missing or invalid", 0)
            ELSE failIf(eventsJson.schemaVersion # EVENTS_SCHEMA_VERSION, report,
                        "events.schemaVersion mismatch", 0)
  IN IF eventsJson.recordingId = ""
     THEN fail(r1, "events.recordingId is missing", 0)
     ELSE failIf(projectJson.id # "" /\ eventsJson.recordingId # projectJson.id, r1,
                 "recording id mismatch", 0)

\* main, the checks on the ffmpeg probe of the source video.
checkVideoProbe(report, projectJson, videoProbe) ==
  LET r1 == info(report, "ffmpeg probe binary")
      r2 == IF ~isFiniteNumber(videoProbe.durationMs)
            THEN fail(r1, "Failed to parse source video duration from ffmpeg output", 0)
            ELSE info(r1, "source duration")
      r3 == IF isFiniteNumber(videoProbe.width) /\ isFiniteNumber(videoProbe.height)
            THEN warnIf(/\ isFiniteNumber(projectJson.videoWidth)
                        /\ isFiniteNumber(projectJson.videoHeight)
                        /\ \/ projectJson.videoWidth # videoProbe.width
                           \/ projectJson.videoHeight # videoProbe.height,
                        info(r2, "source resolution"),
                        "project resolution differs from source", 0)
            ELSE warn(r2, "Failed to parse source video resolution from ffmpeg output", 0)
  IN IF isFiniteNumber(videoProbe.fps) THEN info(r3, "source fps") ELSE r3

\* main, the duration drift between project.json and the probe:
\* driftRatio = delta / baseline against 0.25 and 0.08.
checkDurationDrift(report, projectDurationMs, probeDurationMs) ==
  IF ~(isFiniteNumber(projectDurationMs) /\ isFiniteNumber(probeDurationMs))
  THEN report
  ELSE LET delta == Abs(projectDurationMs - probeDurationMs)
           baseline == Max(projectDurationMs, probeDurationMs)
       IN IF baseline > 0 /\ delta * 100 > 25 * baseline
          THEN fail(report, "critical duration mismatch", 0)
          ELSE IF baseline > 0 /\ delta * 100 > 8 * baseline
               THEN warn(report, "duration drift detected", 0)
               ELSE info(report, "duration delta")

\* events.events.map((event) => Number(event.ts)).filter(Number.isFinite)
eventTimestamps(eventList) ==
  LET ts == [i \in 1..Len(eventList) |-> eventList[i].ts]
  IN SelectSeq(ts, isFiniteNumber)

\* The disorder loop of main: the number of timestamps below their predecessor.
disorderCount(timestamps) ==
  Cardinality({i \in 2..Len(timestamps) : timestamps[i] < timestamps[i - 1]})

\* main, the timestamp checks of the event stream.
checkTimestamps(report, projectJson, eventList) ==
  LET timestamps == eventTimestamps(eventList)
      values == {timestamps[i] : i \in 1..Len(timestamps)}
      maxTs == CHOOSE v \in values : \A w \in values : w <= v
      minTs == CHOOSE v \in values : \A w \in values : v <= w
  IN IF Len(timestamps) = 0
     THEN warn(report, "No telemetry events found in events.json", 0)
     ELSE LET r1 == info(report, "events range")
              r2 == failIf(minTs < 0, r1, "events contain negative timestamps", 0)
              r3 == failIf(/\ isFiniteNumber(projectJson.durationMs)
                           /\ maxTs > projectJson.durationMs + 1000,
                           r2, "event timeline exceeds project duration", 0)
          IN warnIf(disorderCount(timestamps) > 0, r3,
                    "event order is not strictly monotonic", 0)

\* main, the cursor coordinate checks of the event stream.
checkCursorBounds(report, eventsJson) ==
  LET HasCoords(event) == isFiniteNumber(event.x) /\ isFiniteNumber(event.y)
      coordEvents == SelectSeq(eventsJson.events, HasCoords)
      xs == {coordEvents[i].x : i \in 1..Len(coordEvents)}
      ys == {coordEvents[i].y : i \in 1..Len(coordEvents)}
      minX == CHOOSE v \in xs : \A w \in xs : v <= w
      maxX == CHOOSE v \in xs : \A w \in xs : w <= v
      minY == CHOOSE v \in ys : \A w \in ys : v <= w
      maxY == CHOOSE v \in ys : \A w \in ys : w <= v
      screenWidth == eventsJson.screenWidth
      screenHeight == eventsJson.screenHeight
      scaleFactor == eventsJson.scaleFactor
      fitsPhysical == maxX * 100 <= screenWidth * 105 /\ maxY * 100 <= screenHeight * 105
      validScale == isFiniteNumber(scaleFactor) /\ scaleFactor > 0 /\ scaleFactor <= 400
      fitsScaled == /\ validScale
                    /\ scaleFactor > 100
                    /\ maxX * scaleFactor <= screenWidth * 105
                    /\ maxY * scaleFactor <= screenHeight * 105
  IN IF Len(coordEvents) = 0
     THEN warn(report, "No pointer coordinate events found", 0)
     ELSE IF \/ ~isFiniteNumber(screenWidth) \/ screenWidth <= 0
             \/ ~isFiniteNumber(screenHeight) \/ screenHeight <= 0
          THEN fail(info(report, "cursor range"),
                    "events.screenWidth/screenHeight are missing or invalid", 0)
          ELSE LET r1 == failIf(minX < -2 \/ minY < -2, info(report, "cursor range"),
                                "cursor coordinates contain negative values below tolerance", 0)
                   r2 == failIf(~validScale, r1, "events.scaleFactor is invalid", 0)
               IN IF ~fitsPhysical /\ ~fitsScaled
                  THEN fail(r2, "cursor coordinates exceed screen bounds", 0)
                  ELSE warnIf(~fitsPhysical /\ fitsScaled, r2,
                              "cursor coordinates look logical-pixel based", 0)

\* Number(rect?.x) and so on for rect = segment?.targetRect.
targetRectNumbers(segment) ==
  IF segment.targetRect = << >>
  THEN [x |-> NaN, y |-> NaN, width |-> NaN, height |-> NaN]
  ELSE segment.targetRect[1]

\* main, the body of the loop over project.timeline.zoomSegments from
\* position index on (index counts from 1).
RECURSIVE checkZoomSegments(_, _, _, _, _)
checkZoomSegments(report, projectJson, segments, index, previousEnd) ==
  IF index > Len(segments)
  THEN report
  ELSE LET segment == segments[index]
           startTs == segment.startTs
           endTs == segment.endTs
           rect == targetRectNumbers(segment)
           r1 == failIf(startTs < 0 \/ endTs <= startTs, report, "invalid time range", index)
           r2 == failIf(/\ isFiniteNumber(projectJson.durationMs)
                        /\ endTs > projectJson.durationMs + 1,
                        r1, "endTs exceeds project duration", index)
           r3 == warnIf(startTs < previousEnd, r2, "zoom segments overlap", index)
           r4 == failIf(rect.width <= 0 \/ rect.height <= 0, r3,
                        "targetRect width/height must be > 0", index)
           r5 == failIf(\/ rect.x < 0 \/ rect.y < 0
                        \/ (rect.x + rect.width) * 10 > 10001
                        \/ (rect.y + rect.height) * 10 > 10001,
                        r4, "targetRect out of [0..1] bounds", index)
       IN IF ~isFiniteNumber(startTs) \/ ~isFiniteNumber(endTs)
          THEN checkZoomSegments(fail(report, "startTs/endTs must be numbers", index),
                                 projectJson, segments, index + 1, previousEnd)
          ELSE IF \E v \in {rect.x, rect.y, rect.width, rect.height} : ~isFiniteNumber(v)
               THEN checkZoomSegments(fail(r3, "targetRect has invalid values", index),
                                      projectJson, segments, index + 1, Max(previousEnd, endTs))
               ELSE checkZoomSegments(r5, projectJson, segments, index + 1,
                                      Max(previousEnd, endTs))

\* main, the optional export check; exportProbe is << >> when no export-*.mp4
\* exists, else << the probe of the latest one >>.
checkExport(report, projectJson, exportProbe) ==
  IF exportProbe = << >>
  THEN warn(report, "No export-*.mp4 files found for optional export check", 0)
  ELSE LET r1 == info(report, "latest export")
           delta == Abs(exportProbe[1].durationMs - projectJson.durationMs)
           \* Math.round(project.durationMs * 0.08)
           allowed == Max(350, (projectJson.durationMs * 8 + 50) \div 100)
       IN IF ~isFiniteNumber(exportProbe[1].durationMs)
          THEN warn(r1, "Failed to parse export duration from ffmpeg output", 0)
          ELSE warnIf(isFiniteNumber(projectJson.durationMs) /\ delta > allowed, r1,
                      "export duration differs from project", 0)

\* The exit code main ends with: process.exit(1) when issues is not empty,
\* a plain return otherwise.
smokeExitCodeIgnoringIssues(recorded) == 0
smokeExitCode(recorded) == IF Len(recorded) > 0 THEN 1 ELSE 0

\* What a run can find on disk.  A zoom segment of project.json is either one
\* the editor wrote (handleAddSegment: the rectangle is in initialRect, no
\* targetRect) or one that carries its rectangle in targetRect.
SmokeSegmentTimes == {<< 0, 400 >>, << 200, 1001 >>, << 400, 400 >>, << 600, 1002 >>}
SmokeRects == {DEFAULT_RECT, [x |-> 600, y |-> 0, width |-> 600, height |-> 600]}
editorWrittenSegment == newManualSegment(1, [startTs |-> 0, endTs |-> 400], DEFAULT_RECT)
targetRectSegment(times, rect) ==
  [newManualSegment(2, [startTs |-> times[1], endTs |-> times[2]], rect)
     EXCEPT !.initialRect = << >>, !.targetRect = << rect >>]
SmokeSegments ==
  {editorWrittenSegment}
    \cup {targetRectSegment(times, rect) : times \in SmokeSegmentTimes, rect \in SmokeRects}
SmokeSegmentLists ==
  UNION {[1..n -> SmokeSegments] : n \in 0..MaxSmokeSegments}

smokeProjectJson(schemaVersion, timeline) ==
  [valid |-> TRUE, schemaVersion |-> schemaVersion, id |-> "rec-1", durationMs |-> 1000,
   videoWidth |-> 1920, videoHeight |-> 1080, timeline |-> timeline]
SmokeProjects ==
  {smokeProjectJson(schemaVersion, << [zoomSegments |-> segments] >>) :
     schemaVersion \in {PROJECT_SCHEMA_VERSION, PROJECT_SCHEMA_VERSION + 1},
     segments \in SmokeSegmentLists}
    \cup {smokeProjectJson(PROJECT_SCHEMA_VERSION, << >>)}
TypicalProjects ==
  {smokeProjectJson(PROJECT_SCHEMA_VERSION, << [zoomSegments |-> segments] >>) :
     segments \in {<< >>, << targetRectSegment(<< 0, 400 >>, DEFAULT_RECT) >>}}

\* Input events of events.json: a mouse event at ts 0, a key event (no
\* coordinates) at ts 100, a mouse event before the start and off the screen.
SmokeEvents ==
  {[ts |-> 0, x |-> 10, y |-> 10], [ts |-> 100, x |-> NaN, y |-> NaN],
   [ts |-> -5, x |-> 600, y |-> 10]}
smokeEventsJson(recordingId, eventList) ==
  [valid |-> TRUE, schemaVersion |-> EVENTS_SCHEMA_VERSION, recordingId |-> recordingId,
   screenWidth |-> 512, screenHeight |-> 512, scaleFactor |-> 100, events |-> eventList]
SmokeEventsFiles ==
  {<< >>, << [smokeEventsJson("rec-1", << >>) EXCEPT !.valid = FALSE] >>}
    \cup {<< smokeEventsJson(recordingId, eventList) >> :
            recordingId \in {"rec-1", "rec-2"},
            eventList \in UNION {[1..n -> SmokeEvents] : n \in 0..MaxEvents}}
TypicalEventsFiles ==
  {<< smokeEventsJson("rec-1", eventList) >> :
     eventList \in {<< >>, << [ts |-> 0, x |-> 10, y |-> 10] >>,
                    << [ts |-> 100, x |-> NaN, y |-> NaN], [ts |-> 0, x |-> 10, y |-> 10] >>}}

\* The source video: << >> when the file is missing, else what spawnSync and
\* the parsers of probeVideo give (spawned = FALSE: probe.error is set).
smokeVideoProbe(probeDurationMs, width) ==
  [spawned |-> TRUE, durationMs |-> probeDurationMs, width |-> width, height |-> 1080, fps |-> 30]
SmokeVideos ==
  {<< >>, << [smokeVideoProbe(NaN, NaN) EXCEPT !.spawned = FALSE] >>,
   << smokeVideoProbe(1000, NaN) >>, << smokeVideoProbe(1000, 1280) >>}
    \cup {<< smokeVideoProbe(probeDurationMs, 1920) >> : probeDurationMs \in {1000, 900, 500, NaN}}
TypicalVideos == {<< smokeVideoProbe(1000, 1920) >>, << smokeVideoProbe(900, 1920) >>}

SmokeRuns ==
  {[project |-> projectJson, events |-> eventsJson, video |-> video] :
     projectJson \in SmokeProjects, eventsJson \in TypicalEventsFiles, video \in TypicalVideos}
    \cup {[project |-> projectJson, events |-> eventsJson, video |-> video] :
            projectJson \in TypicalProjects, eventsJson \in SmokeEventsFiles,
            video \in SmokeVideos}
    \cup {[project |-> [smokeProjectJson(PROJECT_SCHEMA_VERSION, << >>) EXCEPT !.valid = FALSE],
           events |-> << >>, video |-> << >>]}

\* The optional export check: whether --check-export was given, and what
\* findLatestExport and probeVideo give for the latest export.
SmokeExports ==
  {[checkExport |-> FALSE, latestExport |-> << >>]}
    \cup {[checkExport |-> TRUE, latestExport |-> latestExport] :
            latestExport \in {<< >>, << [smokeVideoProbe(NaN, NaN) EXCEPT !.spawned = FALSE] >>}
                               \cup {<< smokeVideoProbe(probeDurationMs, 1920) >> :
                                       probeDurationMs \in {1000, 2000, NaN}}}

SmokeInit ==
  /\ \E run \in SmokeRuns : smokeFiles = << run >>
  /\ smokeStage = "start"
  /\ issues = << >> /\ warnings = << >> /\ infos = << >>
  /\ smokeCrashed = FALSE /\ exitCode = << >>
  /\ NonSmokeIdle

smokeSetReport(report) ==
  /\ issues' = report.issues
  /\ warnings' = report.warnings
  /\ infos' = report.infos

\* The catch of the entry point: "Smoke QA crashed", process.exit(1).
smokeCrash ==
  /\ smokeCrashed' = TRUE
  /\ exitCode' = << 1 >>
  /\ smokeStage' = "exited"
  /\ UNCHANGED << issues, warnings, infos >>

\* parseArgs with --help: usage is printed and the process exits with 0.
SmokeHelp ==
  /\ smokeStage = "start"
  /\ exitCode' = << 0 >>
  /\ smokeStage' = "exited"
  /\ UNCHANGED << smokeFiles, issues, warnings, infos, smokeCrashed, nonSmokeVars >>

\* main up to the existence checks: readJson(projectFilePath) throws on a
\* missing or unparsable project.json.
SmokeReadProject ==
  /\ smokeStage = "start"
  /\ LET files == smokeFiles[1]
     IN IF ~files.project.valid
        THEN smokeCrash
        ELSE /\ smokeSetReport(checkProject(smokeReport, files.project,
                                            files.events # << >>, files.video # << >>))
             /\ smokeStage' = "project"
             /\ UNCHANGED << smokeCrashed, exitCode >>
  /\ UNCHANGED << smokeFiles, nonSmokeVars >>

\* main, "let events = null; if (fs.existsSync(eventsPath)) ...".
SmokeReadEvents ==
  /\ smokeStage = "project"
  /\ LET files == smokeFiles[1]
     IN IF files.events = << >>
        THEN /\ smokeStage' = "events"
             /\ UNCHANGED << issues, warnings, infos, smokeCrashed, exitCode >>
        ELSE IF ~files.events[1].valid
             THEN smokeCrash
             ELSE /\ smokeSetReport(checkEventsHeader(smokeReport, files.project,
                                                      files.events[1]))
                  /\ smokeStage' = "events"
                  /\ UNCHANGED << smokeCrashed, exitCode >>
  /\ UNCHANGED << smokeFiles, nonSmokeVars >>

\* main, the probe of the source video and the duration drift check.
SmokeProbeVideo ==
  /\ smokeStage = "events"
  /\ LET files == smokeFiles[1]
     IN IF files.video = << >>
        THEN /\ smokeStage' = "video"
             /\ UNCHANGED << issues, warnings, infos, smokeCrashed, exitCode >>
        ELSE IF ~files.video[1].spawned
             THEN smokeCrash
             ELSE /\ smokeSetReport(
                       checkDurationDrift(
                         checkVideoProbe(smokeReport, files.project, files.video[1]),
                         files.project.durationMs, files.video[1].durationMs))
                  /\ smokeStage' = "video"
                  /\ UNCHANGED << smokeCrashed, exitCode >>
  /\ UNCHANGED << smokeFiles, nonSmokeVars >>

\* main, "if (events && Array.isArray(events.events))": timestamps, then
\* cursor coordinates.
SmokeCheckTelemetry ==
  /\ smokeStage = "video"
  /\ LET files == smokeFiles[1]
     IN IF files.events = << >>
        THEN UNCHANGED << issues, warnings, infos >>
        ELSE smokeSetReport(
               checkCursorBounds(
                 checkTimestamps(smokeReport, files.project, files.events[1].events),
                 files.events[1]))
  /\ smokeStage' = "telemetry"
  /\ UNCHANGED << smokeFiles, smokeCrashed, exitCode, nonSmokeVars >>

\* main, the checks on project.timeline.zoomSegments.
SmokeCheckZoomSegments ==
  /\ smokeStage = "telemetry"
  /\ LET projectJson == smokeFiles[1].project
     IN IF projectJson.timeline = << >>
        THEN smokeSetReport(fail(smokeReport,
                                 "project.timeline.zoomSegments must be an array", 0))
        ELSE smokeSetReport(checkZoomSegments(smokeReport, projectJson,
                                              projectJson.timeline[1].zoomSegments,
                                              1, -Infinity))
  /\ smokeStage' = "segments"
  /\ UNCHANGED << smokeFiles, smokeCrashed, exitCode, nonSmokeVars >>

\* main, "if (args.checkExport)"; probeVideo throws when ffmpeg cannot be run.
SmokeCheckExport ==
  /\ smokeStage = "segments"
  /\ \E export \in SmokeExports :
       IF ~export.checkExport
       THEN /\ smokeStage' = "export"
            /\ UNCHANGED << issues, warnings, infos, smokeCrashed, exitCode >>
       ELSE IF export.latestExport # << >> /\ ~export.latestExport[1].spawned
            THEN smokeCrash
            ELSE /\ smokeSetReport(checkExport(smokeReport, smokeFiles[1].project,
                                               export.latestExport))
                 /\ smokeStage' = "export"
                 /\ UNCHANGED << smokeCrashed, exitCode >>
  /\ UNCHANGED << smokeFiles, nonSmokeVars >>

\* main, the report and the end of the process.
SmokeExit ==
  /\ smokeStage = "export"
  /\ exitCode' = << smokeExitCode(issues) >>
  /\ smokeStage' = "exited"
  /\ UNCHANGED << smokeFiles, issues, warnings, infos, smokeCrashed, nonSmokeVars >>

SmokeNext ==
  \/ SmokeHelp
  \/ SmokeReadProject
  \/ SmokeReadEvents
  \/ SmokeProbeVideo
  \/ SmokeCheckTelemetry
  \/ SmokeCheckZoomSegments
  \/ SmokeCheckExport
  \/ SmokeExit

SpecSmoke == SmokeInit /\ [][SmokeNext]_vars

\* C18: the smoke check exits with code 1 exactly when at least one failure
\* was recorded or the check crashed; with only warnings and infos recorded
\* it exits with code 0.
C18_ExitCodeOneIffFailure ==
  exitCode # << >> =>
    /\ exitCode[1] \in {0, 1}
    /\ exitCode[1] = 1 <=> (Len(issues) > 0 \/ smokeCrashed)

\* A run that went through every check, recorded warnings and infos but no
\* failure, and exited with code 0.
C18_PassedWithWarnings ==
  /\ smokeStage = "exited" /\ exitCode = << 0 >> /\ ~smokeCrashed
  /\ Len(issues) = 0 /\ Len(warnings) > 1 /\ Len(infos) > 0
  /\ \E k \in 1..Len(warnings) : warnings[k].check = "zoom segments overlap"

\* C19: once the segment loop has run, a zoom segment of the checked project
\* has no failure recorded against it exactly when its time range is valid
\* (0 <= startTs < endTs <= durationMs + 1) and its rectangle (initialRect
\* for a segment written by the editor) lies inside the unit square.
C19_SegmentFailsIffInvalid ==
  LET projectJson == smokeFiles[1].project
      StoredRect(segment) ==
        IF segment.initialRect # << >> THEN segment.initialRect[1] ELSE segment.targetRect[1]
      InsideUnitSquare(rect) ==
        /\ rect.x >= 0 /\ rect.y >= 0 /\ rect.width > 0 /\ rect.height > 0
        /\ rect.x + rect.width <= RectScale /\ rect.y + rect.height <= RectScale
      Valid(segment) ==
        /\ 0 <= segment.startTs /\ segment.startTs < segment.endTs
        /\ segment.endTs <= projectJson.durationMs + 1
        /\ InsideUnitSquare(StoredRect(segment))
      FailureRecorded(index) == \E k \in 1..Len(issues) : issues[k].segment = index
      EachSegment(segments) ==
        \A index \in 1..Len(segments) : Valid(segments[index]) <=> ~FailureRecorded(index)
  IN (smokeStage \in {"segments", "export"} /\ projectJson.timeline # << >>)
       => EachSegment(projectJson.timeline[1].zoomSegments)

\* C20: a run that did not crash and whose timestamp check saw an events.json
\* with event timestamps that are not non-decreasing in file order ends with
\* a failure recorded and exit code 1.
C20_DisorderedTimestampsFail ==
  LET Disordered(eventList) ==
        \E i \in 2..Len(eventList) : eventList[i].ts < eventList[i - 1].ts
      TimestampsChecked == \E k \in 1..Len(infos) : infos[k].check = "events range"
  IN (smokeStage = "exited" /\ ~smokeCrashed /\ TimestampsChecked
        /\ Disordered(smokeFiles[1].events[1].events))
       => (Len(issues) > 0 /\ exitCode = << 1 >>)

\* ------------------------------------------------------------------------
\* Export screen (src/unnamed/part_005) and the export driver (spec 4.7)
\* ------------------------------------------------------------------------
MaxExportStarts == 2
ExportFrames == 2

\* DEFAULT_STATUS; progress is the number of frames emitted so far.
DEFAULT_STATUS == [isRunning |-> FALSE, progress |-> 0, message |-> "Idle", error |-> ""]

\* The export driver (the commands start_export, cancel_export,
\* reset_export_status, get_export_status and the worker thread).
\* One atomic status record and one atomic cancel flag.
driverIdle == [status |-> DEFAULT_STATUS, cancelFlag |-> FALSE]

\* start_export: a new run with a cleared cancel flag.
driverStart(driver) ==
  [status |-> [isRunning |-> TRUE, progress |-> 0, message |-> "Rendering", error |-> ""],
   cancelFlag |-> FALSE]

\* cancel_export: sets the cooperative flag of the running export.
driverCancel(driver) == [driver EXCEPT !.cancelFlag = driver.status.isRunning]

\* The worker between two frames: the flag is polled; on cancel the status
\* becomes finished with error "cancelled"; otherwise the next frame is
\* emitted, and after the last frame the status becomes finished.
driverTerminal(driver, message, errorText) ==
  [status |-> [driver.status EXCEPT !.isRunning = FALSE, !.message = message,
                                    !.error = errorText],
   cancelFlag |-> FALSE]
driverStepIgnoringCancel(driver) ==
  IF driver.status.progress < ExportFrames
  THEN [driver EXCEPT !.status.progress = @ + 1]
  ELSE driverTerminal(driver, "finished", "")
driverStep(driver) ==
  IF driver.cancelFlag
  THEN driverTerminal(driver, "finished", "cancelled")
  ELSE IF driver.status.progress < ExportFrames
       THEN [driver EXCEPT !.status.progress = @ + 1]
       ELSE driverTerminal(driver, "finished", "")

\* An encoder error: terminal status with error set, no retry.
driverEncoderError(driver) == driverTerminal(driver, "failed", "encoder error")

\* ExportScreen: the useState initial values and the idle handlers.
exportScreenInit ==
  [status |-> DEFAULT_STATUS, isStartingExport |-> FALSE, isCancellingExport |-> FALSE,
   error |-> "", info |-> ""]
exportCallsInit == [start |-> "idle", cancel |-> "idle", reset |-> "idle", pull |-> << >>]

ExportInit ==
  /\ exportDriver = driverIdle
  /\ exportScreen = exportScreenInit
  /\ exportCalls = exportCallsInit
  /\ exportLog = [startClicks |-> 0, startExportCalls |-> 0]
  /\ NonExportIdle

\* The "Start Export" button (its disabled expression; a project is selected)
\* and handleStartExport up to the first await.  outputDirectory is what the
\* Output Folder field holds at the click.
ClickStartExport ==
  /\ ~exportScreen.isStartingExport /\ ~exportScreen.isCancellingExport
  /\ ~exportScreen.status.isRunning
  /\ exportCalls.start = "idle"
  /\ exportLog.startClicks < MaxExportStarts
  /\ \E outputDirectory \in {"", "out"} :
       IF outputDirectory = ""
       THEN /\ exportScreen' = [exportScreen EXCEPT !.error = "Select output folder."]
            /\ UNCHANGED exportCalls
       ELSE /\ exportScreen' = [exportScreen EXCEPT !.error = "", !.info = "",
                                                    !.isStartingExport = TRUE]
            /\ exportCalls' = [exportCalls EXCEPT !.start = "start_export"]
  /\ exportLog' = [exportLog EXCEPT !.startClicks = @ + 1]
  /\ UNCHANGED << exportDriver, nonExportVars >>

\* handleStartExport, the catch and finally after a rejected start_export.
startExportRejectedRetrying(screen, calls) ==
  << [screen EXCEPT !.error = "start_export failed"], calls >>
startExportRejected(screen, calls) ==
  << [screen EXCEPT !.error = "start_export failed", !.isStartingExport = FALSE],
     [calls EXCEPT !.start = "idle"] >>

\* handleStartExport, await invoke("start_export"): the driver refuses while
\* an export is running or when the video or the encoder is unavailable.
StartExportInvoke ==
  /\ exportCalls.start = "start_export"
  /\ \/ /\ ~exportDriver.status.isRunning
        /\ exportDriver' = driverStart(exportDriver)
        /\ exportScreen' = [exportScreen EXCEPT !.info = "Export started."]
        /\ exportCalls' = [exportCalls EXCEPT !.start = "fetchStatus"]
     \/ /\ LET after == startExportRejected(exportScreen, exportCalls)
           IN exportScreen' = after[1] /\ exportCalls' = after[2]
        /\ UNCHANGED exportDriver
  /\ exportLog' = [exportLog EXCEPT !.startExportCalls = @ + 1]
  /\ UNCHANGED nonExportVars

\* fetchStatus: setStatus(get_export_status), or setError when it rejects.
fetchStatus(screen, driver, resolves) ==
  IF resolves THEN [screen EXCEPT !.status = driver.status]
  ELSE [screen EXCEPT !.error = "get_export_status failed"]

\* handleStartExport, await fetchStatus() and the finally.
StartExportFetch ==
  /\ exportCalls.start = "fetchStatus"
  /\ \E resolves \in BOOLEAN :
       exportScreen' = [fetchStatus(exportScreen, exportDriver, resolves)
                          EXCEPT !.isStartingExport = FALSE]
  /\ exportCalls' = [exportCalls EXCEPT !.start = "idle"]
  /\ UNCHANGED << exportDriver, exportLog, nonExportVars >>

\* The "Cancel Export" button and handleCancelExport up to the first await.
ClickCancelExport ==
  /\ exportScreen.status.isRunning /\ ~exportScreen.isCancellingExport
  /\ exportCalls.cancel = "idle"
  /\ exportScreen' = [exportScreen EXCEPT !.error = "", !.info = "",
                                           !.isCancellingExport = TRUE]
  /\ exportCalls' = [exportCalls EXCEPT !.cancel = "cancel_export"]
  /\ UNCHANGED << exportDriver, exportLog, nonExportVars >>

\* handleCancelExport, await invoke("cancel_export").
CancelExportInvoke ==
  /\ exportCalls.cancel = "cancel_export"
  /\ exportDriver' = driverCancel(exportDriver)
  /\ exportScreen' = [exportScreen EXCEPT !.info = "Cancel requested."]
  /\ exportCalls' = [exportCalls EXCEPT !.cancel = "fetchStatus"]
  /\ UNCHANGED << exportLog, nonExportVars >>

\* handleCancelExport, await fetchStatus() and the finally.
CancelExportFetch ==
  /\ exportCalls.cancel = "fetchStatus"
  /\ \E resolves \in BOOLEAN :
       exportScreen' = [fetchStatus(exportScreen, exportDriver, resolves)
                          EXCEPT !.isCancellingExport = FALSE]
  /\ exportCalls' = [exportCalls EXCEPT !.cancel = "idle"]
  /\ UNCHANGED << exportDriver, exportLog, nonExportVars >>

\* The "Reset Status" button and handleResetStatus up to the first await.
ClickResetStatus ==
  /\ ~exportScreen.status.isRunning /\ ~exportScreen.isCancellingExport
  /\ exportCalls.reset = "idle"
  /\ exportScreen.status # DEFAULT_STATUS
  /\ exportScreen' = [exportScreen EXCEPT !.error = ""]
  /\ exportCalls' = [exportCalls EXCEPT !.reset = "reset_export_status"]
  /\ UNCHANGED << exportDriver, exportLog, nonExportVars >>

\* handleResetStatus, await invoke("reset_export_status") and fetchStatus():
\* the status of an export that is not running goes back to DEFAULT_STATUS.
ResetStatusInvoke ==
  /\ exportCalls.reset = "reset_export_status"
  /\ IF exportDriver.status.isRunning
     THEN /\ exportScreen' = [exportScreen EXCEPT !.error = "reset_export_status failed"]
          /\ UNCHANGED exportDriver
     ELSE /\ exportDriver' = driverIdle
          /\ exportScreen' = fetchStatus(exportScreen, driverIdle, TRUE)
  /\ exportCalls' = [exportCalls EXCEPT !.reset = "idle"]
  /\ UNCHANGED << exportLog, nonExportVars >>

\* The status polling effect: pull() awaits get_export_status ...
PullInvoke ==
  /\ exportCalls.pull = << >>
  /\ exportCalls' = [exportCalls EXCEPT !.pull = << exportDriver.status >>]
  /\ UNCHANGED << exportDriver, exportScreen, exportLog, nonExportVars >>

\* ... and then calls setStatus(next).
PullSetStatus ==
  /\ exportCalls.pull # << >>
  /\ exportScreen' = [exportScreen EXCEPT !.status = exportCalls.pull[1]]
  /\ exportCalls' = [exportCalls EXCEPT !.pull = << >>]
  /\ UNCHANGED << exportDriver, exportLog, nonExportVars >>

\* The worker thread of the driver between two frames.
DriverStep ==
  /\ exportDriver.status.isRunning
  /\ exportDriver' = driverStep(exportDriver)
  /\ UNCHANGED << exportScreen, exportCalls, exportLog, nonExportVars >>

\* The encoder returns a terminal error for the frame handed to it.
DriverEncoderError ==
  /\ exportDriver.status.isRunning /\ ~exportDriver.cancelFlag
  /\ exportDriver.status.progress < ExportFrames
  /\ exportDriver' = driverEncoderError(exportDriver)
  /\ UNCHANGED << exportScreen, exportCalls, exportLog, nonExportVars >>

ExportNext ==
  \/ ClickStartExport
  \/ StartExportInvoke
  \/ StartExportFetch
  \/ ClickCancelExport
  \/ CancelExportInvoke
  \/ CancelExportFetch
  \/ ClickResetStatus
  \/ ResetStatusInvoke
  \/ PullInvoke
  \/ PullSetStatus
  \/ DriverStep
  \/ DriverEncoderError

SpecExport == ExportInit /\ [][ExportNext]_vars

\* The worker thread keeps running while an export is in progress.
SpecExportLive == SpecExport /\ WF_vars(DriverStep)

C22_NoAutomaticRetry ==
  exportLog.startExportCalls <= exportLog.startClicks

\* A failed export and a rejected start, both shown on the screen, with the
\* next poll already under way.
C22_FailedExportPolled ==
  /\ exportDriver.status.error = "encoder error"
  /\ exportScreen.status.error = "encoder error"
  /\ exportScreen.error = "start_export failed"
  /\ exportCalls.start = "idle" /\ exportCalls.pull # << >>
  /\ exportLog.startExportCalls = MaxExportStarts

\* ------------------------------------------------------------------------
\* Smart Camera Engine (spec 4.3; camera_engine.rs is described in
\* src/unnamed/part_000)
\* ------------------------------------------------------------------------
MaxEngineEvents == 3
MIN_ZOOM_INTERVAL_MS == 2000
IDLE_TIMEOUT_MS == 2000
PRE_ROLL_MS == 400
CLUSTER_GAP_MS == 300
MULTI_CLICK_WINDOW_MS == 3000
MAX_ZOOM_MILLI == 2000

\* A click is eligible under the trigger policy.
engineEligible(event, policy) ==
  event.kind = "click" /\ (policy = "ctrl-click" => event.ctrl)

\* Clustering: the index of the next eligible click after position i (0 when
\* there is none), and whether click i is the last click of its cluster.
nextEligible(log, policy, i) ==
  LET later == {j \in (i + 1)..Len(log) : engineEligible(log[j], policy)}
  IN IF later = {} THEN 0 ELSE CHOOSE j \in later : \A k \in later : j <= k
isClusterAnchor(log, policy, i) ==
  /\ engineEligible(log[i], policy)
  /\ LET j == nextEligible(log, policy, i)
     IN j = 0 \/ log[j].ts - log[i].ts > CLUSTER_GAP_MS

\* The firing rule of the trigger policy for the cluster anchored at click i.
passesTriggerPolicy(log, policy, i) ==
  IF policy = "multi-click-window"
  THEN Cardinality({j \in 1..i : /\ engineEligible(log[j], policy)
                                  /\ log[i].ts - log[j].ts < MULTI_CLICK_WINDOW_MS}) >= 2
  ELSE TRUE

\* What the state machine consumes: one item per cluster (at its anchor) and
\* one per scroll that exceeds the global scroll limit.
engineItemsOf(log, policy) ==
  LET ItemOf(i) ==
        [kind |-> IF log[i].kind = "scroll" THEN "scroll"
                  ELSE IF isClusterAnchor(log, policy, i) THEN "cluster" ELSE "merged",
         ts |-> log[i].ts, zoom |-> log[i].zoom,
         passes |-> log[i].kind = "click" /\ passesTriggerPolicy(log, policy, i)]
      Consumed(item) == item.kind # "merged"
  IN SelectSeq([i \in 1..Len(log) |-> ItemOf(i)], Consumed)

\* The anti-spam guard of FreeRoam -> LockedFocus.
antiSpamAllowsAlways(lastAutoStart, now) == TRUE
antiSpamAllows(lastAutoStart, now) ==
  lastAutoStart = << >> \/ now - lastAutoStart[1] >= MIN_ZOOM_INTERVAL_MS

\* The time at which an idle LockedFocus is left.
idleCloseTsAtNextClick(lastClickTs, now) == now
idleCloseTs(lastClickTs, now) == Min(lastClickTs + IDLE_TIMEOUT_MS, now)

engineCameraInit ==
  [state |-> "FreeRoam", open |-> << >>, lastAutoStart |-> << >>,
   lastClickTs |-> 0, lastRetarget |-> 0]

\* A new auto segment: start = max(0, anchor - preRoll), one target point for
\* the focus of the cluster.
engineOpenSegment(id, now, preRoll, zoom) ==
  [id |-> id, startTs |-> Max(0, now - preRoll), endTs |-> now, isAuto |-> TRUE,
   mode |-> "follow-cursor", trigger |-> "auto-click",
   targetPoints |-> << [ts |-> Max(0, now - preRoll), zoom |-> zoom] >>]

\* Retarget: the last target point moves to now and a point for the new
\* focus is appended.
engineRetarget(segment, now, zoom) ==
  LET points == segment.targetPoints
      moved == [points EXCEPT ![Len(points)].ts = now]
  IN [segment EXCEPT !.targetPoints = Append(moved, [ts |-> now, zoom |-> zoom])]

\* LockedFocus -> FreeRoam: the open segment is closed at closeTs.
engineClose(camera, closeTs) ==
  [camera EXCEPT !.state = "FreeRoam", !.open = << >>]
engineClosedSegment(camera, closeTs) == [camera.open[1] EXCEPT !.endTs = closeTs]

\* trimAutoNoop (spec 4.2): leading target points with zoom strength
\* <= 1 + epsilon are dropped and the segment starts at the first point kept;
\* << >> when no point is kept.
RECURSIVE engineDropLeadingNoop(_)
engineDropLeadingNoop(points) ==
  IF points = << >> THEN << >>
  ELSE IF points[1].zoom <= RectScale + EFFECTIVE_ZOOM_EPSILON_MILLI
       THEN engineDropLeadingNoop(Tail(points))
       ELSE points
trimAutoNoop(segment) ==
  LET kept == engineDropLeadingNoop(segment.targetPoints)
  IN IF kept = << >> THEN << >>
     ELSE << [segment EXCEPT !.targetPoints = kept,
                             !.startTs = Max(segment.startTs, kept[1].ts)] >>

\* Post-processing, "enforce non-overlap (4.2)": in start order every
\* segment starts no earlier than MIN_SEGMENT_GAP_MS after the end of the
\* one kept before it.
RECURSIVE enforceNonOverlapFrom(_, _)
enforceNonOverlapFrom(sorted, previousEnd) ==
  IF sorted = << >> THEN << >>
  ELSE LET segment == [sorted[1] EXCEPT !.startTs = Max(@, previousEnd)]
       IN IF segment.endTs - segment.startTs < MIN_SEGMENT_MS
          THEN enforceNonOverlapFrom(Tail(sorted), previousEnd)
          ELSE << segment >>
                 \o enforceNonOverlapFrom(Tail(sorted), segment.endTs + MIN_SEGMENT_GAP_MS)
enforceNonOverlapSkipped(sorted) == sorted
enforceNonOverlap(sorted) == enforceNonOverlapFrom(sorted, 0)

\* Post-processing (spec 4.3.5).
enginePostProcess(segments) ==
  LET trimmed == Flatten([i \in 1..Len(segments) |-> trimAutoNoop(segments[i])])
      LongEnough(segment) == segment.endTs - segment.startTs >= MIN_SEGMENT_MS
  IN enforceNonOverlap(SortByStartTs(SelectSeq(trimmed, LongEnough)))

\* Event logs: clicks (with or without Ctrl, on an element that gives the
\* fallback zoom or on one as large as the screen) and scrolls that exceed
\* the global scroll limit, at strictly increasing timestamps.
EngineTimes == {1000, 1200, 2000, 4100, 10000}
EnginePolicies == {"single-click", "multi-click-window", "ctrl-click"}
EnginePreRolls == {0, PRE_ROLL_MS}
EngineEvents ==
  {[kind |-> "click", ts |-> ts, ctrl |-> ctrl, zoom |-> zoom] :
     ts \in EngineTimes, ctrl \in BOOLEAN, zoom \in {MAX_ZOOM_MILLI, RectScale}}
    \cup {[kind |-> "scroll", ts |-> ts, ctrl |-> FALSE, zoom |-> RectScale] : ts \in EngineTimes}
EngineLogs ==
  {log \in UNION {[1..n -> EngineEvents] : n \in 0..MaxEngineEvents} :
     \A i \in 2..Len(log) : log[i - 1].ts < log[i].ts}

\* The logs of Ctrl-clicks on zoomable elements and scrolls.
EngineCtrlLogs ==
  {log \in EngineLogs :
     \A i \in 1..Len(log) : log[i].kind = "click" => (log[i].ctrl /\ log[i].zoom = MAX_ZOOM_MILLI)}

EngineStarted(log, policy) ==
  /\ engineInput = << [log |-> log, policy |-> policy, durationMs |-> 12000] >>
  /\ engineItems = engineItemsOf(log, policy)
  /\ engineCamera = engineCameraInit
  /\ engineSegments = << >>
  /\ engineStarts = << >>
  /\ engineStage = "pass"

EngineInit ==
  /\ \E log \in EngineLogs, policy \in EnginePolicies : EngineStarted(log, policy)
  /\ NonEngineIdle

EngineCtrlInit ==
  /\ \E log \in EngineCtrlLogs, policy \in EnginePolicies : EngineStarted(log, policy)
  /\ NonEngineIdle

\* IDLE_TIMEOUT_MS has elapsed in LockedFocus before the next item.
engineIdleElapsed(camera, now) ==
  camera.state = "LockedFocus" /\ now >= camera.lastClickTs + IDLE_TIMEOUT_MS

\* LockedFocus -> FreeRoam (a): no eligible click for IDLE_TIMEOUT_MS.
EngineIdleExit ==
  /\ engineStage = "pass" /\ engineItems # << >>
  /\ engineIdleElapsed(engineCamera, engineItems[1].ts)
  /\ LET closeTs == idleCloseTs(engineCamera.lastClickTs, engineItems[1].ts)
     IN /\ engineSegments' = Append(engineSegments, engineClosedSegment(engineCamera, closeTs))
        /\ engineCamera' = engineClose(engineCamera, closeTs)
  /\ UNCHANGED << engineInput, engineItems, engineStarts, engineStage, nonEngineVars >>

\* A cluster: FreeRoam -> LockedFocus when it passes the trigger policy and
\* the anti-spam guard; in LockedFocus it restarts the idle timer and
\* retargets when the focus differs.  preRoll is what the cursor speed gives.
EngineCluster ==
  /\ engineStage = "pass" /\ engineItems # << >>
  /\ engineItems[1].kind = "cluster"
  /\ ~engineIdleElapsed(engineCamera, engineItems[1].ts)
  /\ LET item == engineItems[1]
         now == item.ts
         camera == engineCamera
     IN IF camera.state = "FreeRoam"
        THEN IF item.passes /\ antiSpamAllows(camera.lastAutoStart, now)
             THEN /\ \E preRoll \in EnginePreRolls :
                       engineCamera' =
                         [state |-> "LockedFocus",
                          open |-> << engineOpenSegment(Len(engineStarts) + 1, now,
                                                        preRoll, item.zoom) >>,
                          lastAutoStart |-> << now >>, lastClickTs |-> now,
                          lastRetarget |-> now]
                  /\ engineStarts' = Append(engineStarts,
                                            [triggerTs |-> now,
                                             startTs |-> engineCamera'.open[1].startTs])
             ELSE UNCHANGED << engineCamera, engineStarts >>
        ELSE /\ engineCamera' =
                  IF /\ item.zoom # Last(camera.open[1].targetPoints).zoom
                     /\ now - camera.lastRetarget >= MIN_ZOOM_INTERVAL_MS
                  THEN [camera EXCEPT !.lastClickTs = now, !.lastRetarget = now,
                                      !.open = << engineRetarget(camera.open[1], now,
                                                                 item.zoom) >>]
                  ELSE [camera EXCEPT !.lastClickTs = now]
             /\ UNCHANGED engineStarts
  /\ engineItems' = Tail(engineItems)
  /\ UNCHANGED << engineInput, engineSegments, engineStage, nonEngineVars >>

\* LockedFocus -> FreeRoam (b): the scroll limit is exceeded; the segment is
\* closed at the triggering timestamp.
EngineScroll ==
  /\ engineStage = "pass" /\ engineItems # << >>
  /\ engineItems[1].kind = "scroll"
  /\ ~engineIdleElapsed(engineCamera, engineItems[1].ts)
  /\ IF engineCamera.state = "LockedFocus"
     THEN /\ engineSegments' = Append(engineSegments,
                                      engineClosedSegment(engineCamera, engineItems[1].ts))
          /\ engineCamera' = engineClose(engineCamera, engineItems[1].ts)
     ELSE UNCHANGED << engineSegments, engineCamera >>
  /\ engineItems' = Tail(engineItems)
  /\ UNCHANGED << engineInput, engineStarts, engineStage, nonEngineVars >>

\* The end of the log: an open segment is closed when its idle timeout
\* elapses, at the end of the recording at the latest.
EngineEndOfLog ==
  /\ engineStage = "pass" /\ engineItems = << >>
  /\ IF engineCamera.state = "LockedFocus"
     THEN LET closeTs == idleCloseTs(engineCamera.lastClickTs, engineInput[1].durationMs)
          IN /\ engineSegments' = Append(engineSegments,
                                         engineClosedSegment(engineCamera, closeTs))
             /\ engineCamera' = engineClose(engineCamera, closeTs)
     ELSE UNCHANGED << engineSegments, engineCamera >>
  /\ engineStage' = "closed"
  /\ UNCHANGED << engineInput, engineItems, engineStarts, nonEngineVars >>

\* Post-processing of the closed segments: the emitted list.
EnginePostProcess ==
  /\ engineStage = "closed"
  /\ engineSegments' = enginePostProcess(engineSegments)
  /\ engineStage' = "done"
  /\ UNCHANGED << engineInput, engineItems, engineCamera, engineStarts, nonEngineVars >>

EngineNext ==
  \/ EngineIdleExit
  \/ EngineCluster
  \/ EngineScroll
  \/ EngineEndOfLog
  \/ EnginePostProcess

SpecEngine == EngineInit /\ [][EngineNext]_vars

\* The pass runs to its end.
SpecEngineLive == EngineCtrlInit /\ [][EngineNext]_vars /\ WF_vars(EngineNext)

\* C23: the post-processed segment list holds only auto segments, is sorted
\* by startTs and is pairwise non-overlapping, for every event log and every
\* trigger policy.
C23_EngineOutputSortedNonOverlapping ==
  engineStage = "done" =>
    /\ \A i \in 1..Len(engineSegments) :
         engineSegments[i].isAuto /\ engineSegments[i].startTs < engineSegments[i].endTs
    /\ \A i \in 2..Len(engineSegments) :
         engineSegments[i - 1].endTs <= engineSegments[i].startTs

\* Two emitted segments where the pre-roll start of the second one (3700)
\* was before the end of the first one (4000).
C23_PreRollReachedIntoPreviousSegment ==
  /\ engineStage = "done" /\ Len(engineSegments) = 2 /\ Len(engineStarts) = 2
  /\ engineStarts[2].startTs < engineSegments[1].endTs
  /\ engineSegments[1].endTs = 4000

\* C24: FreeRoam -> LockedFocus fires only when at least
\* MIN_ZOOM_INTERVAL_MS have passed since it fired the last time, so any two
\* auto segments were triggered at least 2000 ms apart.
C24_AutoStartsTwoSecondsApart ==
  \A i \in 2..Len(engineStarts) :
    engineStarts[i].triggerTs - engineStarts[i - 1].triggerTs >= MIN_ZOOM_INTERVAL_MS

\* A click 1000 ms after the previous auto start, in FreeRoam after a scroll
\* exit, that started no segment; a later click did.
C24_ClickSuppressedByAntiSpam ==
  /\ engineStage = "done" /\ engineInput[1].policy = "single-click"
  /\ Len(engineInput[1].log) = 3
  /\ engineInput[1].log[1].kind = "click" /\ engineInput[1].log[1].ts = 1000
  /\ engineInput[1].log[2].kind = "scroll" /\ engineInput[1].log[2].ts = 1200
  /\ engineInput[1].log[3].kind = "click" /\ engineInput[1].log[3].ts = 2000
  /\ Len(engineStarts) = 1

RECURSIVE springTrackLoop(_, _, _, _)
springTrackLoop(loop, runtime, duration, fps) ==
  LET ts == frameTs(loop.frame, fps, duration)
      activeSegment == resolveRuntimeSegment(runtime, loop.previousTs)
      stepped == stepRect(loop.rect, loop.velocity,
                          IF activeSegment # << >>
                          THEN getTargetRectAtTs(activeSegment[1], loop.previousTs)
                          ELSE FULL_RECT,
                          IF activeSegment # << >> THEN activeSegment[1].spring
                          ELSE DEFAULT_SPRING,
                          ts - loop.previousTs)
  IN IF loop.previousTs >= duration THEN loop.samples
     ELSE IF ts <= loop.previousTs
       THEN springTrackLoop([loop EXCEPT !.frame = @ + 1], runtime, duration, fps)
     ELSE springTrackLoop(
            [samples |-> Append(IF Len(loop.samples) > 1
                                THEN [loop.samples EXCEPT ![Len(loop.samples)].rect = stepped.rect]
                                ELSE loop.samples,
                                [ts |-> ts, rect |-> normalizeRect(stepped.rect)]),
             rect |-> normalizeRect(stepped.rect),
             velocity |-> stepped.velocity,
             previousTs |-> ts,
             frame |-> loop.frame + 1],
            runtime, duration, fps)

buildSpringCameraTrack(runtime, duration, fps) ==
  IF duration <= 0 THEN << [ts |-> 0, rect |-> FULL_RECT] >>
  ELSE springTrackLoop([samples |-> << [ts |-> 0, rect |-> FULL_RECT] >>,
                        rect |-> FULL_RECT, velocity |-> ZeroVelocity,
                        previousTs |-> 0, frame |-> 1],
                       runtime, duration, fps)

\* The binary search ends at the first sample later than ts (sample
\* timestamps are strictly increasing).
sampleCameraTrack(track, ts) ==
  LET Lerp(from, to, elapsed, span) == NumAdd(from, NumMulRatio(NumSub(to, from), elapsed, span))
      Between(prev, next) ==
        normalizeRect(
          [x |-> Lerp(prev.rect.x, next.rect.x, ts - prev.ts, Max(1, next.ts - prev.ts)),
           y |-> Lerp(prev.rect.y, next.rect.y, ts - prev.ts, Max(1, next.ts - prev.ts)),
           width |-> Lerp(prev.rect.width, next.rect.width, ts - prev.ts,
                          Max(1, next.ts - prev.ts)),
           height |-> Lerp(prev.rect.height, next.rect.height, ts - prev.ts,
                           Max(1, next.ts - prev.ts))])
      Search(low) == Between(track[Max(1, low - 1)], track[low])
  IN IF Len(track) = 0 THEN FULL_RECT
     ELSE IF ts <= track[1].ts THEN track[1].rect
     ELSE IF ts >= Last(track).ts THEN Last(track).rect
     ELSE IF \E i \in 1..Len(track) : track[i].ts = ts
       THEN track[CHOOSE i \in 1..Len(track) : track[i].ts = ts].rect
     ELSE Search(FirstTrue([i \in 1..Len(track) |-> track[i].ts > ts]))

\* 1 / Math.max(rect.width, rect.height), in thousandths.
frameScale(rect) ==
  LET Reciprocal(side) ==
        IF side = NaN THEN NaN
        ELSE IF Abs(side) = Infinity THEN 0
        ELSE IF side = 0 THEN Infinity
        ELSE IF side > 0 THEN RoundDiv(RectScale * 1000, side)
        ELSE -RoundDiv(RectScale * 1000, -side)
  IN Reciprocal(Max(rect.width, rect.height))

\* (0.5 - center * scale) * frame side, in thousandths of a pixel (the three
\* decimals toFixed(3) keeps); start is rect.x or rect.y, side the width or
\* height of the rect.
frameTranslation(start, side, scale, framePx) ==
  LET ScaledCenter == NumDiv(NumMul(NumAdd(NumMul(2, start), side), scale), 2 * RectScale)
  IN NumMul(NumSub(500, ScaledCenter), framePx)

\* The frame transform of renderPreviewFrame and of spec 4.6 (steps 3, 4).
frameTransform(rect, frameSize) ==
  [scale |-> frameScale(rect),
   txPx |-> frameTranslation(rect.x, rect.width, frameScale(rect), frameSize.width),
   tyPx |-> frameTranslation(rect.y, rect.height, frameScale(rect), frameSize.height)]

\* renderPreviewFrame for a playhead at previewMs, the preview lasting as
\* long as the timeline.
renderPreviewFrame(previewMs, duration, track, frameSize) ==
  frameTransform(sampleCameraTrack(track, mapTimeMs(clamp(previewMs, 0, duration),
                                                    duration, duration)),
                 frameSize)

\* Export driver: the track is precomputed at the output frame rate, frame k
\* is composed at the time of the k-th frame step.
exportCameraTrack(runtime, duration, outputFps) ==
  buildSpringCameraTrack(runtime, duration, outputFps)

exportFrameTs(frame, outputFps, duration) == frameTs(frame, outputFps, duration)

exportFrameCount(outputFps, duration) == (duration * outputFps + 999) \div 1000

exportFrameTransform(frame, outputFps, duration, track, frameSize) ==
  frameTransform(sampleCameraTrack(track, exportFrameTs(frame, outputFps, duration)), frameSize)

ParityDurations == {67, 100}
OutputFpsValues == {30, PREVIEW_SPRING_FPS}
OutputFrameSizes == {[width |-> 1280, height |-> 720], [width |-> 1920, height |-> 1080]}

ParityInit ==
  /\ \E segments \in UNION {[1..n -> TrackSegments] : n \in 0..MaxTrackSegments},
        duration \in ParityDurations, outputFps \in OutputFpsValues,
        frameSize \in OutputFrameSizes :
       parityInput = << [segments |-> segments, durationMs |-> duration, fps |-> outputFps,
                         frameSize |-> frameSize] >>
  /\ parityStage = "loaded"
  /\ parityPreviewTrack = << >> /\ parityExportTrack = << >>
  /\ parityFrame = -1 /\ parityTransforms = << >>
  /\ NonParityIdle

\* The previewCameraTrack memo (buildSpringCameraTrack with its default fps)
\* and the export driver's precomputation.
ParityBuildTracks ==
  /\ parityStage = "loaded"
  /\ LET Build(runtime) ==
           /\ parityPreviewTrack' =
                buildSpringCameraTrack(runtime, parityInput[1].durationMs,
                                       PREVIEW_SPRING_FPS)
           /\ parityExportTrack' =
                exportCameraTrack(runtime, parityInput[1].durationMs,
                                  parityInput[1].fps)
     IN Build(toRuntimeSegments(parityInput[1].segments, << >>, 1920, 1080))
  /\ parityStage' = "frames"
  /\ UNCHANGED << parityInput, parityFrame, parityTransforms, nonParityVars >>

\* The next output frame, composed by both paths.
ParityComposeFrame ==
  /\ parityStage = "frames"
  /\ parityFrame < exportFrameCount(parityInput[1].fps, parityInput[1].durationMs)
  /\ parityFrame' = parityFrame + 1
  /\ parityTransforms' =
       << [preview |-> renderPreviewFrame(
                         exportFrameTs(parityFrame + 1, parityInput[1].fps,
                                       parityInput[1].durationMs),
                         parityInput[1].durationMs, parityPreviewTrack,
                         parityInput[1].frameSize),
           export |-> exportFrameTransform(parityFrame + 1, parityInput[1].fps,
                                           parityInput[1].durationMs, parityExportTrack,
                                           parityInput[1].frameSize)] >>
  /\ UNCHANGED << parityInput, parityStage, parityPreviewTrack, parityExportTrack,
                  nonParityVars >>

ParityLastFrame ==
  /\ parityStage = "frames"
  /\ parityFrame >= exportFrameCount(parityInput[1].fps, parityInput[1].durationMs)
  /\ parityStage' = "done"
  /\ UNCHANGED << parityInput, parityPreviewTrack, parityExportTrack, parityFrame,
                  parityTransforms, nonParityVars >>

ParityNext == ParityBuildTracks \/ ParityComposeFrame \/ ParityLastFrame

SpecParity == ParityInit /\ [][ParityNext]_vars

\* Two numbers of the transform are within a tolerance of each other (never
\* so when one of them is not finite).
withinTolerance(a, b, tolerance) ==
  /\ a # NaN /\ b # NaN /\ Abs(a) # Infinity /\ Abs(b) # Infinity
  /\ Abs(a - b) <= tolerance

\* C26: for the same project and identical output parameters (resolution and
\* fps), at every output frame the transform of the preview path and the one
\* of the export path agree in translation and in scale.  The claim's
\* tolerances (1e-5 px, 1e-6) are below the resolution of the model, so the
\* property is stated with the looser tolerance of one unit (0.001 px, 0.001),
\* for frames both paths compose from finite rects.
C26_PreviewMatchesExport ==
  (/\ parityTransforms # << >>
   /\ \A path \in {"preview", "export"} :
        /\ withinTolerance(parityTransforms[1][path].scale, 0, NumberMaxValue)
        /\ withinTolerance(parityTransforms[1][path].txPx, 0, NumberMaxValue)
        /\ withinTolerance(parityTransforms[1][path].tyPx, 0, NumberMaxValue))
    => /\ withinTolerance(parityTransforms[1].preview.scale,
                          parityTransforms[1].export.scale, 1)
       /\ withinTolerance(parityTransforms[1].preview.txPx,
                          parityTransforms[1].export.txPx, 1)
       /\ withinTolerance(parityTransforms[1].preview.tyPx,
                          parityTransforms[1].export.tyPx, 1)

\* ------------------------------------------------------------------------
\* Record screen (src/unnamed/part_004) and the overlay control window
\* (src/src/components/RecordingOverlay.tsx)
\* ------------------------------------------------------------------------
MaxRecordActions == 4
MaxOverlayTasks == 2

RemoveAt(tasks, index) == [i \in 1..(Len(tasks) - 1) |-> IF i < index THEN tasks[i] ELSE tasks[i + 1]]

\* INITIAL_OVERLAY_STATE of a freshly created overlay window, whose update
\* listener is not registered yet.
INITIAL_OVERLAY_STATE == [listening |-> FALSE, state |-> "idle", hidden |-> FALSE]

\* RecordingOverlay renders its panel (it returns null otherwise).
overlayVisible ==
  /\ overlayWindow # << >>
  /\ overlayWindow[1].state # "idle" /\ ~overlayWindow[1].hidden

\* emitOverlayUpdate up to its first await that another call can interleave
\* with: << >> when the call returns at once, else the call with the place
\* it waits at.
emitOverlayUpdate(nextState, hidden) ==
  IF nextState = "idle" THEN << [state |-> nextState, hidden |-> hidden, pc |-> "close"] >>
  ELSE IF hidden
    THEN (IF overlayHiddenRef # "true"
          THEN << [state |-> nextState, hidden |-> hidden, pc |-> "close"] >>
          ELSE << >>)
  ELSE IF overlayWindowRef
    THEN << [state |-> nextState, hidden |-> hidden, pc |-> "emit"] >>
  ELSE << [state |-> nextState, hidden |-> hidden, pc |-> "lookup"] >>

\* One render of RecordScreen with its effects: leaving for idle clears
\* isCtrlPressed, and the overlay update effect runs when state, duration,
\* recordingId or isCtrlPressed changed.
recordRender(nextState, nextRecordingId, nextCtrlPressed, durationChanged) ==
  LET Render(ctrlPressed) ==
        /\ recState' = nextState
        /\ recRecordingId' = nextRecordingId
        /\ isCtrlPressed' = ctrlPressed
        /\ overlayTasks' =
             IF \/ durationChanged \/ nextState # recState
                \/ nextRecordingId # recRecordingId \/ ctrlPressed # isCtrlPressed
             THEN overlayTasks \o emitOverlayUpdate(nextState, ctrlPressed)
             ELSE overlayTasks
  IN /\ Len(overlayTasks) < MaxOverlayTasks
     /\ Render(nextState # "idle" /\ nextCtrlPressed)

RecordInit ==
  /\ recState = "idle" /\ recRecordingId = << >> /\ recError = "" /\ recCalls = {}
  /\ recActions = 0 /\ ctrlHeld = FALSE /\ isCtrlPressed = FALSE
  /\ overlayWindowRef = FALSE /\ overlayHiddenRef = "null"
  /\ overlayWindow = << >> /\ overlayTasks = << >>
  /\ NonRecordIdle

\* The start_recording invocations that can be pending at once: handleStart
\* has no guard of its own, and the state stays idle until the call returns.
StartCalls == {"start", "start2"}
pendingStarts == recCalls \cap StartCalls

\* handleStart up to invoke("start_recording"); the Start button is rendered
\* in the idle state only.
ClickStart ==
  /\ recState = "idle" /\ pendingStarts # StartCalls
  /\ recActions < MaxRecordActions /\ recActions' = recActions + 1
  /\ recError' = ""
  /\ recCalls' = recCalls \cup {IF "start" \in recCalls THEN "start2" ELSE "start"}
  /\ UNCHANGED << recState, recRecordingId, ctrlHeld, isCtrlPressed, overlayWindowRef,
                  overlayHiddenRef, overlayWindow, overlayTasks, nonRecordVars >>

StartResolve ==
  /\ \E call \in pendingStarts : recCalls' = recCalls \ {call}
  /\ recordRender("recording", << 1 >>, isCtrlPressed, FALSE)
  /\ UNCHANGED << recError, recActions, ctrlHeld, overlayWindowRef, overlayHiddenRef,
                  overlayWindow, nonRecordVars >>

StartReject ==
  /\ \E call \in pendingStarts : recCalls' = recCalls \ {call}
  /\ recordRender("idle", recRecordingId, isCtrlPressed, FALSE)
  /\ recError' = "start_recording failed"
  /\ UNCHANGED << recActions, ctrlHeld, overlayWindowRef, overlayHiddenRef, overlayWindow,
                  nonRecordVars >>

\* A click on a button of the main window (rendered for the states given) or
\* of the overlay panel (RecordingOverlay handlers: guard on the state the
\* overlay shows, the action event, the overlay's own setOverlayState).
recordClick(source, mainStates, overlayStates, overlayNextState) ==
  /\ source \in {"main", "overlay"}
  /\ recActions < MaxRecordActions /\ recActions' = recActions + 1
  /\ IF source = "main"
     THEN recState \in mainStates /\ UNCHANGED overlayWindow
     ELSE /\ overlayVisible /\ overlayWindow[1].state \in overlayStates
          /\ overlayWindow' = << [overlayWindow[1] EXCEPT !.state = overlayNextState] >>

\* handlePause up to invoke("pause_recording").
HandlePause ==
  /\ \E source \in {"main", "overlay"} :
       recordClick(source, {"recording"}, {"recording"}, "paused")
  /\ IF recRecordingId # << >> /\ recState = "recording"
     THEN recError' = "" /\ recCalls' = recCalls \cup {"pause"}
     ELSE UNCHANGED << recError, recCalls >>
  /\ UNCHANGED << recState, recRecordingId, ctrlHeld, isCtrlPressed, overlayWindowRef,
                  overlayHiddenRef, overlayTasks, nonRecordVars >>

PauseResolve ==
  /\ "pause" \in recCalls /\ recCalls' = recCalls \ {"pause"}
  /\ recordRender("paused", recRecordingId, isCtrlPressed, FALSE)
  /\ UNCHANGED << recError, recActions, ctrlHeld, overlayWindowRef, overlayHiddenRef,
                  overlayWindow, nonRecordVars >>

PauseReject ==
  /\ "pause" \in recCalls /\ recCalls' = recCalls \ {"pause"}
  /\ recError' = "pause_recording failed"
  /\ UNCHANGED << recState, recRecordingId, recActions, ctrlHeld, isCtrlPressed,
                  overlayWindowRef, overlayHiddenRef, overlayWindow, overlayTasks,
                  nonRecordVars >>

\* handleResume up to invoke("resume_recording").
HandleResume ==
  /\ \E source \in {"main", "overlay"} :
       recordClick(source, {"paused"}, {"paused"}, "recording")
  /\ IF recRecordingId # << >> /\ recState = "paused"
     THEN recError' = "" /\ recCalls' = recCalls \cup {"resume"}
     ELSE UNCHANGED << recError, recCalls >>
  /\ UNCHANGED << recState, recRecordingId, ctrlHeld, isCtrlPressed, overlayWindowRef,
                  overlayHiddenRef, overlayTasks, nonRecordVars >>

ResumeResolve ==
  /\ "resume" \in recCalls /\ recCalls' = recCalls \ {"resume"}
  /\ recordRender("recording", recRecordingId, isCtrlPressed, FALSE)
  /\ UNCHANGED << recError, recActions, ctrlHeld, overlayWindowRef, overlayHiddenRef,
                  overlayWindow, nonRecordVars >>

ResumeReject ==
  /\ "resume" \in recCalls /\ recCalls' = recCalls \ {"resume"}
  /\ recError' = "resume_recording failed"
  /\ UNCHANGED << recState, recRecordingId, recActions, ctrlHeld, isCtrlPressed,
                  overlayWindowRef, overlayHiddenRef, overlayWindow, overlayTasks,
                  nonRecordVars >>

\* handleStop up to invoke("stop_recording").
HandleStop ==
  /\ \E source \in {"main", "overlay"} :
       recordClick(source, {"recording", "paused"}, {"recording", "paused"}, "stopping")
  /\ IF recRecordingId # << >> /\ recState # "stopping"
     THEN /\ recordRender("stopping", recRecordingId, isCtrlPressed, FALSE)
          /\ recCalls' = recCalls \cup {"stop"}
     ELSE UNCHANGED << recState, recRecordingId, isCtrlPressed, overlayTasks, recCalls >>
  /\ UNCHANGED << recError, ctrlHeld, overlayWindowRef, overlayHiddenRef, nonRecordVars >>

StopResolve ==
  /\ "stop" \in recCalls /\ recCalls' = recCalls \ {"stop"}
  /\ recordRender("idle", << >>, isCtrlPressed, FALSE)
  /\ UNCHANGED << recError, recActions, ctrlHeld, overlayWindowRef, overlayHiddenRef,
                  overlayWindow, nonRecordVars >>

StopReject ==
  /\ "stop" \in recCalls /\ recCalls' = recCalls \ {"stop"}
  /\ recordRender("idle", recRecordingId, isCtrlPressed, FALSE)
  /\ recError' = "stop_recording failed"
  /\ UNCHANGED << recActions, ctrlHeld, overlayWindowRef, overlayHiddenRef, overlayWindow,
                  nonRecordVars >>

\* The ticker: the displayed duration advances by a second while recording.
DurationTick ==
  /\ recState = "recording"
  /\ recordRender(recState, recRecordingId, isCtrlPressed, TRUE)
  /\ UNCHANGED << recError, recCalls, recActions, ctrlHeld, overlayWindowRef,
                  overlayHiddenRef, overlayWindow, nonRecordVars >>

CtrlPress ==
  /\ ~ctrlHeld /\ ctrlHeld' = TRUE
  /\ recActions < MaxRecordActions /\ recActions' = recActions + 1
  /\ UNCHANGED << recState, recRecordingId, recError, recCalls, isCtrlPressed,
                  overlayWindowRef, overlayHiddenRef, overlayWindow, overlayTasks,
                  nonRecordVars >>

CtrlRelease ==
  /\ ctrlHeld /\ ctrlHeld' = FALSE
  /\ recActions < MaxRecordActions /\ recActions' = recActions + 1
  /\ UNCHANGED << recState, recRecordingId, recError, recCalls, isCtrlPressed,
                  overlayWindowRef, overlayHiddenRef, overlayWindow, overlayTasks,
                  nonRecordVars >>

\* pullCtrlState (polled every 80 ms outside the idle state) with a result
\* that differs from isCtrlPressed.
PullCtrlState ==
  /\ recState # "idle" /\ isCtrlPressed # ctrlHeld
  /\ recordRender(recState, recRecordingId, ctrlHeld, FALSE)
  /\ UNCHANGED << recError, recCalls, recActions, ctrlHeld, overlayWindowRef,
                  overlayHiddenRef, overlayWindow, nonRecordVars >>

\* closeOverlayWindow (finally), then emitOverlayUpdate marks the overlay
\* hidden unless it was closed for the idle state.
overlayClosed(i) ==
  /\ overlayWindowRef' = FALSE
  /\ overlayHiddenRef' = IF overlayTasks[i].state = "idle" THEN "null" ELSE "true"
  /\ overlayTasks' = RemoveAt(overlayTasks, i)

\* closeOverlayWindow: the window found by overlayWindowRef or by its label
\* is closed; with no window to close the call is over at once.
OverlayTaskClose ==
  \E i \in 1..Len(overlayTasks) :
    /\ overlayTasks[i].pc = "close"
    /\ IF overlayWindow = << >>
       THEN overlayClosed(i) /\ UNCHANGED overlayWindow
       ELSE /\ overlayWindow' = << >>
            /\ overlayTasks' = [overlayTasks EXCEPT ![i].pc = "closed"]
            /\ UNCHANGED << overlayWindowRef, overlayHiddenRef >>
    /\ UNCHANGED << recState, recRecordingId, recError, recCalls, recActions, ctrlHeld,
                    isCtrlPressed, nonRecordVars >>

\* overlayWindow.close() has returned.
OverlayTaskClosed ==
  \E i \in 1..Len(overlayTasks) :
    /\ overlayTasks[i].pc = "closed"
    /\ overlayClosed(i)
    /\ UNCHANGED << recState, recRecordingId, recError, recCalls, recActions, ctrlHeld,
                    isCtrlPressed, overlayWindow, nonRecordVars >>

\* ensureOverlayWindow: WebviewWindow.getByLabel.
OverlayTaskLookup ==
  \E i \in 1..Len(overlayTasks) :
    /\ overlayTasks[i].pc = "lookup"
    /\ IF overlayWindow # << >>
       THEN /\ overlayWindowRef' = TRUE
            /\ overlayTasks' = [overlayTasks EXCEPT ![i].pc = "emit"]
       ELSE /\ overlayTasks' = [overlayTasks EXCEPT ![i].pc = "create"]
            /\ UNCHANGED overlayWindowRef
    /\ UNCHANGED << recState, recRecordingId, recError, recCalls, recActions, ctrlHeld,
                    isCtrlPressed, overlayHiddenRef, overlayWindow, nonRecordVars >>

\* ensureOverlayWindow: new WebviewWindow; a window of that label existing by
\* now makes the creation fail and emitOverlayUpdate reject.
OverlayTaskCreate ==
  \E i \in 1..Len(overlayTasks) :
    /\ overlayTasks[i].pc = "create"
    /\ IF overlayWindow = << >>
       THEN /\ overlayWindow' = << INITIAL_OVERLAY_STATE >>
            /\ overlayTasks' = [overlayTasks EXCEPT ![i].pc = "created"]
       ELSE /\ overlayTasks' = RemoveAt(overlayTasks, i)
            /\ UNCHANGED overlayWindow
    /\ UNCHANGED << recState, recRecordingId, recError, recCalls, recActions, ctrlHeld,
                    isCtrlPressed, overlayWindowRef, overlayHiddenRef, nonRecordVars >>

\* ensureOverlayWindow after waitForWebviewWindowCreated.
OverlayTaskCreated ==
  \E i \in 1..Len(overlayTasks) :
    /\ overlayTasks[i].pc = "created"
    /\ overlayWindowRef' = TRUE
    /\ overlayTasks' = [overlayTasks EXCEPT ![i].pc = "emit"]
    /\ UNCHANGED << recState, recRecordingId, recError, recCalls, recActions, ctrlHeld,
                    isCtrlPressed, overlayHiddenRef, overlayWindow, nonRecordVars >>

\* emitOverlayUpdate after setIgnoreCursorEvents: the update event reaches the
\* overlay window if it exists and listens.
OverlayTaskEmit ==
  \E i \in 1..Len(overlayTasks) :
    /\ overlayTasks[i].pc = "emit"
    /\ overlayHiddenRef' = "false"
    /\ overlayWindow' =
         IF overlayWindow # << >> /\ overlayWindow[1].listening
         THEN << [listening |-> TRUE, state |-> overlayTasks[i].state,
                  hidden |-> overlayTasks[i].hidden] >>
         ELSE overlayWindow
    /\ overlayTasks' = RemoveAt(overlayTasks, i)
    /\ UNCHANGED << recState, recRecordingId, recError, recCalls, recActions, ctrlHeld,
                    isCtrlPressed, overlayWindowRef, nonRecordVars >>

\* RecordingOverlay mounts in the new window and its listener is registered.
OverlayListen ==
  /\ overlayWindow # << >> /\ ~overlayWindow[1].listening
  /\ overlayWindow' = << [overlayWindow[1] EXCEPT !.listening = TRUE] >>
  /\ UNCHANGED << recState, recRecordingId, recError, recCalls, recActions, ctrlHeld,
                  isCtrlPressed, overlayWindowRef, overlayHiddenRef, overlayTasks,
                  nonRecordVars >>

OverlayTaskStep ==
  \/ OverlayTaskClose \/ OverlayTaskClosed \/ OverlayTaskLookup
  \/ OverlayTaskCreate \/ OverlayTaskCreated \/ OverlayTaskEmit

RecordNext ==
  \/ ClickStart \/ StartResolve \/ StartReject
  \/ HandlePause \/ PauseResolve \/ PauseReject
  \/ HandleResume \/ ResumeResolve \/ ResumeReject
  \/ HandleStop \/ StopResolve \/ StopReject
  \/ DurationTick \/ CtrlPress \/ CtrlRelease \/ PullCtrlState
  \/ OverlayTaskStep \/ OverlayListen

SpecRecord == RecordInit /\ [][RecordNext]_vars

\* Backend calls complete, the Ctrl poll and the ticker run, the overlay
\* window loads and every emitOverlayUpdate call proceeds.  The renders are
\* strongly fair: they wait only for room among the MaxOverlayTasks calls
\* in flight, which the ticker may take again and again.
SpecRecordLive ==
  /\ SpecRecord
  /\ SF_vars(StartResolve \/ StartReject) /\ SF_vars(PauseResolve \/ PauseReject)
  /\ SF_vars(ResumeResolve \/ ResumeReject) /\ SF_vars(StopResolve \/ StopReject)
  /\ SF_vars(PullCtrlState) /\ WF_vars(DurationTick)
  /\ WF_vars(OverlayTaskStep) /\ WF_vars(OverlayListen)

RecordingActive == recState \in {"recording", "paused", "stopping"}

\* C27: during an active recording session, when Ctrl is held and stays
\* held the overlay eventually is hidden and stays hidden; when Ctrl is
\* released and stays released the overlay eventually is visible again and
\* shows the current recording state, in every state of the session.
C27_OverlayFollowsCtrl ==
  /\ <>[](RecordingActive /\ ctrlHeld) => <>[](~overlayVisible)
  /\ <>[](RecordingActive /\ ~ctrlHeld)
       => <>[](overlayVisible /\ overlayWindow[1].state = recState)

\* C29: recordingId is non-null exactly when state is not idle.
C29_RecordingIdIffNotIdle == (recRecordingId # << >>) <=> (recState # "idle")

\* ------------------------------------------------------------------------
\* Saving while editing: handleSaveProject split at its await
\* ------------------------------------------------------------------------
\* The variables of the components other than the editor and the save.
editorFrame == << gapVars, trimVars, cursorVars, trackVars, loadVars, smokeVars, exportVars,
                 engineVars, parityVars, recordVars, appVars, visualVars, followVars >>

\* A project has been loaded and no save is under way.
SaveInit == EditInit /\ SaveIdle

\* handleSaveProject up to invoke("save_project"); the Save button is
\* disabled while isSaving.
SaveInvoke ==
  /\ ~isSaving
  /\ isSaving' = TRUE
  /\ editError' = ""
  /\ saveFlight' = << [atInvoke |-> zoomSegments,
                       forSave |-> projectForSaveSegments(zoomSegments, runtimeSegments)] >>
  /\ saveOutcome' = << >>
  /\ UNCHANGED << durationMs, zoomSegments, dragState, selectedSegmentId, editCount,
                  loadedValid, lastEdit, editorFrame >>

\* save_project resolved: setProject(projectForSave), then finally.
SaveResolve ==
  /\ saveFlight # << >>
  /\ zoomSegments' = saveFlight[1].forSave
  /\ saveOutcome' = << [atInvoke |-> saveFlight[1].atInvoke, before |-> zoomSegments,
                        after |-> saveFlight[1].forSave] >>
  /\ isSaving' = FALSE /\ saveFlight' = << >>
  /\ UNCHANGED << durationMs, dragState, selectedSegmentId, editError, editCount,
                  loadedValid, lastEdit, editorFrame >>

\* save_project rejected: setError(String(err)), then finally.
SaveReject ==
  /\ saveFlight # << >>
  /\ editError' = "save_project failed"
  /\ saveOutcome' = << [atInvoke |-> saveFlight[1].atInvoke, before |-> zoomSegments,
                        after |-> zoomSegments] >>
  /\ isSaving' = FALSE /\ saveFlight' = << >>
  /\ UNCHANGED << durationMs, zoomSegments, dragState, selectedSegmentId, editCount,
                  loadedValid, lastEdit, editorFrame >>

SaveNext ==
  \/ SaveInvoke \/ SaveResolve \/ SaveReject
  \/ AddSegment \/ DeleteSelectedSegment \/ ChangeCameraMode

SpecSave == SaveInit /\ [][SaveNext]_vars

\* What the user's edits decide of a timeline: which segments there are,
\* where, in which mode and with which rect.
editedParts(segments) ==
  [i \in 1..Len(segments) |->
     [id |-> segments[i].id, startTs |-> segments[i].startTs, endTs |-> segments[i].endTs,
      mode |-> normalizeSegmentMode(segments[i].mode),
      initialRect |-> getSegmentBaseRect(segments[i])]]

\* C28: when the project was edited while save_project was in flight, the
\* project state after the save completes still holds those edits.
C28_SaveKeepsEdits ==
  (saveOutcome # << >> /\ saveOutcome[1].before # saveOutcome[1].atInvoke)
    => editedParts(saveOutcome[1].after) = editedParts(saveOutcome[1].before)

\* ------------------------------------------------------------------------
\* Camera track: boundary-aligned sampling
\* ------------------------------------------------------------------------
\* The rects the samples at the given timestamps hold when each is the
\* clamped result of one spring step from the state of the sample before it,
\* toward the target in force at that earlier sample's time (FULL_RECT and
\* DEFAULT_SPRING when no segment is active then).
RECURSIVE alignedRects(_, _, _, _)
alignedRects(timestamps, runtime, state, index) ==
  LET activeSegment == resolveRuntimeSegment(runtime, timestamps[index - 1])
      stepped == stepRect(state.rect, state.velocity,
                          IF activeSegment # << >>
                          THEN getTargetRectAtTs(activeSegment[1], timestamps[index - 1])
                          ELSE FULL_RECT,
                          IF activeSegment # << >> THEN activeSegment[1].spring
                          ELSE DEFAULT_SPRING,
                          timestamps[index] - timestamps[index - 1])
  IN IF index > Len(timestamps) THEN << >>
     ELSE << normalizeRect(stepped.rect) >>
          \o alignedRects(timestamps, runtime,
                          [rect |-> normalizeRect(stepped.rect), velocity |-> stepped.velocity],
                          index + 1)

alignedTrackRects(samples, runtime) ==
  << FULL_RECT >> \o alignedRects([i \in 1..Len(samples) |-> samples[i].ts], runtime,
                                  [rect |-> FULL_RECT, velocity |-> ZeroVelocity], 2)

\* C30: in the returned camera track the rect of every sample after the
\* first is the clamped result of one spring step, of the length of the
\* interval since the sample before it, from the state at that sample toward
\* the target sampled at the start of the interval.
C30_SamplesAreClampedSteps ==
  (trackStage = "done" /\ trackDurationMs > 0) =>
    LET Aligned(expected) ==
          \A k \in 2..Len(trackSamples) : trackSamples[k].rect = expected[k]
    IN Aligned(alignedTrackRects(trackSamples, trackRuntimeSegments))

\* C31: start_recording is never invoked while an earlier start_recording
\* call is still pending or while a recording session is active: at most one
\* start_recording call is pending, and none while the screen is out of idle.
C31_SingleStartCall ==
  /\ Cardinality(pendingStarts) <= 1
  /\ (pendingStarts # {}) => recState = "idle"

\* C32: whenever the Record screen is idle and no overlay update is in
\* flight, no overlay control window is open.
C32_IdleClosesOverlay ==
  (recState = "idle" /\ overlayTasks = << >>) => overlayWindow = << >>

\* The gap search returned a slot for a preferred time inside the gap the
\* slot was taken from.
slotForTimeInsideGap(gap) ==
  /\ gapReturned /\ gapSlot # << >> /\ gap # << >>
  /\ gap[1].start <= gapPreferredTs /\ gapPreferredTs < gap[1].end

Screens == {"record", "edit", "export"}
SaveOutcomes == {"saved", "failed", "threw"}

\* PendingAction values, held as << >> (null) or << action >>.
NavigateAction(target) == [kind |-> "navigate", target |-> target]
CloseAction == [kind |-> "close", target |-> "none"]

\* A guard that never asks.
shouldPromptForActionNever(action) == FALSE

shouldPromptForAction(action) ==
  IF action = << >> \/ currentScreen # "edit" \/ ~isEditDirty THEN FALSE
  ELSE IF action[1].kind = "navigate" /\ action[1].target = "edit" THEN FALSE
  ELSE TRUE

\* The Edit screen is mounted while the screen is "edit"; mounted, it keeps
\* its save handler registered through onSaveHandlerChange.
editScreenMounts ==
  editSaveHandlerRef' = (currentScreen' = "edit")

executePendingAction(action) ==
  IF action = << >> THEN UNCHANGED << currentScreen, isEditDirty, appExiting >>
  ELSE IF action[1].kind = "navigate"
    THEN /\ currentScreen' = action[1].target
         /\ isEditDirty' = FALSE
         /\ UNCHANGED appExiting
  ELSE /\ appExiting' = TRUE
       /\ UNCHANGED << currentScreen, isEditDirty >>

\* setPendingAction(action); setShowUnsavedPrompt(true)
openUnsavedPrompt(action) ==
  /\ pendingAction' = << action >>
  /\ showUnsavedPrompt' = TRUE
  /\ lastAppHandler' = "prompt"
  /\ UNCHANGED << currentScreen, isEditDirty, appExiting >>

AppInit ==
  /\ currentScreen = "record" /\ isEditDirty = FALSE /\ pendingAction = << >>
  /\ showUnsavedPrompt = FALSE /\ isHandlingUnsavedPrompt = FALSE
  /\ editSaveHandlerRef = FALSE /\ unsavedYesFlight = << >>
  /\ appExiting = FALSE /\ lastAppHandler = "none"
  /\ NonAppIdle

\* requestNavigate: a click on a Navigation entry.
RequestNavigate ==
  /\ \E target \in Screens :
       IF shouldPromptForAction(<< NavigateAction(target) >>)
       THEN openUnsavedPrompt(NavigateAction(target))
       ELSE /\ currentScreen' = target
            /\ lastAppHandler' = "navigate"
            /\ UNCHANGED << isEditDirty, pendingAction, showUnsavedPrompt, appExiting >>
  /\ editScreenMounts
  /\ UNCHANGED << isHandlingUnsavedPrompt, unsavedYesFlight, nonAppVars >>

\* requestClose: the Navigation close button or the window's close request.
RequestClose ==
  /\ ~appExiting
  /\ IF shouldPromptForAction(<< CloseAction >>)
     THEN openUnsavedPrompt(CloseAction)
     ELSE /\ executePendingAction(<< CloseAction >>)
          /\ lastAppHandler' = "close"
          /\ UNCHANGED << pendingAction, showUnsavedPrompt >>
  /\ UNCHANGED << isHandlingUnsavedPrompt, editSaveHandlerRef, unsavedYesFlight, nonAppVars >>

\* The prompt's buttons are rendered with showUnsavedPrompt and disabled
\* while isHandlingUnsavedPrompt.
promptButtonEnabled == showUnsavedPrompt /\ ~isHandlingUnsavedPrompt

HandleUnsavedChoiceNo ==
  /\ promptButtonEnabled
  /\ showUnsavedPrompt' = FALSE
  /\ pendingAction' = << >>
  /\ executePendingAction(pendingAction)
  /\ editScreenMounts
  /\ lastAppHandler' = "no"
  /\ UNCHANGED << isHandlingUnsavedPrompt, unsavedYesFlight, nonAppVars >>

HandleUnsavedChoiceCancel ==
  /\ promptButtonEnabled
  /\ showUnsavedPrompt' = FALSE
  /\ pendingAction' = << >>
  /\ lastAppHandler' = "cancel"
  /\ UNCHANGED << currentScreen, isEditDirty, isHandlingUnsavedPrompt, editSaveHandlerRef,
                  unsavedYesFlight, appExiting, nonAppVars >>

\* handleUnsavedChoiceYes up to `await saveHandler()`; without a registered
\* handler it runs through to executePendingAction at once.
HandleUnsavedChoiceYes ==
  /\ promptButtonEnabled
  /\ IF editSaveHandlerRef
     THEN /\ isHandlingUnsavedPrompt' = TRUE
          /\ unsavedYesFlight' = << [action |-> pendingAction] >>
          /\ lastAppHandler' = "yes"
          /\ UNCHANGED << currentScreen, isEditDirty, pendingAction, showUnsavedPrompt,
                          editSaveHandlerRef, appExiting >>
     ELSE /\ showUnsavedPrompt' = FALSE
          /\ pendingAction' = << >>
          /\ executePendingAction(pendingAction)
          /\ editScreenMounts
          /\ lastAppHandler' = "yes-unsaved"
          /\ UNCHANGED << isHandlingUnsavedPrompt, unsavedYesFlight >>
  /\ UNCHANGED nonAppVars

\* handleUnsavedChoiceYes after the save handler has returned true or false
\* or has thrown; `finally` clears isHandlingUnsavedPrompt.
SaveHandlerReturns ==
  /\ unsavedYesFlight # << >>
  /\ \E outcome \in SaveOutcomes :
       IF outcome = "saved"
       THEN /\ showUnsavedPrompt' = FALSE
            /\ pendingAction' = << >>
            /\ executePendingAction(unsavedYesFlight[1].action)
            /\ editScreenMounts
            /\ lastAppHandler' = "yes-saved"
       ELSE /\ lastAppHandler' = "yes-failed"
            /\ UNCHANGED << currentScreen, isEditDirty, pendingAction, showUnsavedPrompt,
                            editSaveHandlerRef, appExiting >>
  /\ isHandlingUnsavedPrompt' = FALSE
  /\ unsavedYesFlight' = << >>
  /\ UNCHANGED nonAppVars

\* The mounted Edit screen reports its dirty state through onDirtyChange.
EditReportsDirty ==
  /\ currentScreen = "edit"
  /\ isEditDirty' = ~isEditDirty
  /\ lastAppHandler' = "dirty"
  /\ UNCHANGED << currentScreen, pendingAction, showUnsavedPrompt, isHandlingUnsavedPrompt,
                  editSaveHandlerRef, unsavedYesFlight, appExiting, nonAppVars >>

AppNext ==
  \/ RequestNavigate \/ RequestClose
  \/ HandleUnsavedChoiceNo \/ HandleUnsavedChoiceCancel \/ HandleUnsavedChoiceYes
  \/ SaveHandlerReturns \/ EditReportsDirty

SpecApp == AppInit /\ [][AppNext]_vars

C35_ShortTrimmedSegmentsDropped ==
  (trimStage >= 1 /\ trimInput[1].isAuto /\ trimOnce # << >>) =>
    trimOnce[1].endTs - trimOnce[1].startTs >= MIN_SEGMENT_MS

\* ------------------------------------------------------------------------
\* Timeline bars: resolveSegmentVisualBounds and the segmentVisuals memo on
\* the preview camera track.  Track indexes count from 1 here (index i is
\* the code's index i - 1; 0 is the code's -1).
\* ------------------------------------------------------------------------
\* Zoom strengths are in millionths; TIMELINE_VISUAL_ZOOM_EPSILON is 0.0002
\* and TIMELINE_VISUAL_MOTION_EPSILON is 0.00005 (5 hundredths of a rect unit).
ZoomStrengthScale == 1000000
TIMELINE_VISUAL_ZOOM_EPSILON_MICRO == 200
TIMELINE_VISUAL_MOTION_EPSILON_CENTI == 5
TIMELINE_VISUAL_RETURN_TAIL_MS == 200

\* Math.max, Math.abs and > on numbers that may be NaN.
NumMax(a, b) == IF a = NaN \/ b = NaN THEN NaN ELSE Max(a, b)
NumAbs(a) == IF a = NaN THEN NaN ELSE Abs(a)
NumGreater(a, b) == a # NaN /\ b # NaN /\ a > b

\* 1 / Math.max(rect.width, rect.height)
getZoomStrength(rect) ==
  LET Inverse(side) ==
        IF side = NaN THEN NaN
        ELSE IF side = 0 THEN Infinity
        ELSE IF Abs(side) = Infinity THEN 0
        ELSE (RectScale * ZoomStrengthScale) \div side
  IN Inverse(NumMax(rect.width, rect.height))

RECURSIVE trackSearchAtOrAfter(_, _, _, _)
trackSearchAtOrAfter(track, ts, low, high) ==
  LET Halve(mid) ==
        IF track[mid].ts < ts THEN trackSearchAtOrAfter(track, ts, mid + 1, high)
        ELSE trackSearchAtOrAfter(track, ts, low, mid - 1)
  IN IF low <= high THEN Halve((low + high) \div 2) ELSE Min(low, Len(track))

findTrackIndexAtOrAfter(track, ts) ==
  IF Len(track) = 0 THEN 0
  ELSE IF ts <= track[1].ts THEN 1
  ELSE trackSearchAtOrAfter(track, ts, 1, Len(track))

RECURSIVE trackSearchAtOrBefore(_, _, _, _)
trackSearchAtOrBefore(track, ts, low, high) ==
  LET Halve(mid) ==
        IF track[mid].ts <= ts THEN trackSearchAtOrBefore(track, ts, mid + 1, high)
        ELSE trackSearchAtOrBefore(track, ts, low, mid - 1)
  IN IF low <= high THEN Halve((low + high) \div 2) ELSE Max(1, high)

findTrackIndexAtOrBefore(track, ts) ==
  IF Len(track) = 0 THEN 0
  ELSE IF ts >= Last(track).ts THEN Len(track)
  ELSE trackSearchAtOrBefore(track, ts, 1, Len(track))

motionDelta(left, right) ==
  NumMax(NumMax(NumAbs(NumSub(left.x, right.x)), NumAbs(NumSub(left.y, right.y))),
         NumMax(NumAbs(NumSub(left.width, right.width)),
                NumAbs(NumSub(left.height, right.height))))

isVisuallyActiveAt(track, index) ==
  IF NumGreater(getZoomStrength(track[index].rect),
                ZoomStrengthScale + TIMELINE_VISUAL_ZOOM_EPSILON_MICRO)
  THEN TRUE
  ELSE IF index > 1
    THEN NumGreater(NumMul(motionDelta(track[index].rect, track[index - 1].rect), 100),
                    TIMELINE_VISUAL_MOTION_EPSILON_CENTI)
  ELSE FALSE

\* The loop over rangeStart..rangeEnd that keeps the sample of highest zoom.
RECURSIVE peakScan(_, _, _, _)
peakScan(track, index, rangeEnd, peak) ==
  IF index > rangeEnd THEN peak
  ELSE peakScan(track, index + 1, rangeEnd,
                IF NumGreater(getZoomStrength(track[index].rect), peak.zoom)
                THEN [index |-> index, zoom |-> getZoomStrength(track[index].rect)]
                ELSE peak)

\* firstMoving: the first visually active index of the range, 0 for none.
RECURSIVE firstMovingIndex(_, _, _)
firstMovingIndex(track, index, rangeEnd) ==
  IF index > rangeEnd THEN 0
  ELSE IF isVisuallyActiveAt(track, index) THEN index
  ELSE firstMovingIndex(track, index + 1, rangeEnd)

RECURSIVE walkBackward(_, _)
walkBackward(track, index) ==
  IF index > 1 /\ isVisuallyActiveAt(track, index - 1) THEN walkBackward(track, index - 1)
  ELSE index

RECURSIVE walkForward(_, _)
walkForward(track, index) ==
  IF index + 1 <= Len(track) /\ isVisuallyActiveAt(track, index + 1)
  THEN walkForward(track, index + 1)
  ELSE index

\* resolveSegmentVisualBounds up to visualStartIndex and visualEndIndex:
\* << >> where it returns the segment's own bounds before that, else
\* << [startIndex, endIndex] >>.
visualActiveRange(segment, track) ==
  LET Around(peakIndex) ==
        << [startIndex |-> walkBackward(track, peakIndex),
            endIndex |-> walkForward(track, peakIndex)] >>
      FromPeak(peak, firstMoving) ==
        IF peak.zoom <= ZoomStrengthScale + TIMELINE_VISUAL_ZOOM_EPSILON_MICRO
        THEN (IF firstMoving >= 1 THEN Around(firstMoving) ELSE << >>)
        ELSE Around(peak.index)
      InRange(rangeStart, rangeEnd) ==
        IF rangeStart < 1 \/ rangeEnd < rangeStart THEN << >>
        ELSE FromPeak(peakScan(track, rangeStart, rangeEnd,
                               [index |-> rangeStart, zoom |-> ZoomStrengthScale]),
                      firstMovingIndex(track, rangeStart, rangeEnd))
  IN IF Len(track) = 0 THEN << >>
     ELSE InRange(findTrackIndexAtOrAfter(track, segment.startTs),
                  findTrackIndexAtOrBefore(track, segment.endTs))

\* if (segment.startTs < startTs) startTs = segment.startTs
anchoredStartTs(segmentStartTs, visualStartTs) ==
  IF segmentStartTs < visualStartTs THEN segmentStartTs ELSE visualStartTs

resolveSegmentVisualBounds(segment, track) ==
  LET Own == [startTs |-> segment.startTs, endTs |-> segment.endTs]
      Bounds(startTs, endTs) ==
        IF endTs <= startTs THEN Own ELSE [startTs |-> startTs, endTs |-> endTs]
      FromRange(range) ==
        IF range = << >> THEN Own
        ELSE Bounds(anchoredStartTs(segment.startTs, track[range[1].startIndex].ts),
                    track[range[1].endIndex].ts)
  IN FromRange(visualActiveRange(segment, track))

\* The bar of one timeline segment in the segmentVisuals memo (times only).
segmentVisual(segment, runtime, track, timelineMs, previewMs) ==
  LET Bar(startTs, endTs) ==
        [id |-> segment.id,
         startPreviewMs |-> mapTimeMs(startTs, timelineMs, previewMs),
         endPreviewMs |-> mapTimeMs(endTs, timelineMs, previewMs)]
      Fallback(startTs) ==
        Bar(startTs, clamp(Max(segment.endTs, startTs + 1), startTs + 1, timelineMs))
      WithTail(startTs, endTs) ==
        IF endTs <= startTs THEN Fallback(clamp(segment.startTs, 0, timelineMs))
        ELSE Bar(startTs, endTs)
      Ends(startTs, endTs) ==
        WithTail(startTs,
             clamp(endTs, startTs + 1,
                   Max(startTs + 1,
                       Min(timelineMs, segment.endTs + TIMELINE_VISUAL_RETURN_TAIL_MS))))
      Starts(visualBounds, startTs) ==
        Ends(startTs, clamp(visualBounds.endTs, startTs + 1, timelineMs))
      Clamped(visualBounds) ==
        Starts(visualBounds, clamp(visualBounds.startTs, segment.startTs, timelineMs))
  IN Clamped(IF runtime # << >> THEN resolveSegmentVisualBounds(runtime[1], track)
             ELSE [startTs |-> segment.startTs, endTs |-> segment.endTs])

\* runtimeSegmentsById.get(id): the last runtime segment of that id.
runtimeSegmentById(runtime, id) ==
  LET Matching == {i \in 1..Len(runtime) : runtime[i].id = id}
  IN IF Matching = {} THEN << >>
     ELSE << runtime[CHOOSE i \in Matching : \A j \in Matching : j <= i] >>

VisualInit ==
  /\ TrackInit
  /\ trackFps = PREVIEW_SPRING_FPS

\* The segmentVisuals memo, computed from the timeline segments, the runtime
\* segments and the preview camera track once that is built.
ComputeSegmentVisuals ==
  /\ trackStage = "done" /\ ~visualsComputed
  /\ visualsComputed' = TRUE
  /\ segmentVisuals' =
       IF trackDurationMs <= 0 THEN << >>
       ELSE [i \in 1..Len(trackRuntimeSegments) |->
               segmentVisual(trackRuntimeSegments[i],
                             runtimeSegmentById(trackRuntimeSegments,
                                                trackRuntimeSegments[i].id),
                             trackSamples, trackDurationMs, trackDurationMs)]
  /\ UNCHANGED nonVisualVars

\* At the preview frame rate no frame of the integrator is skipped.
VisualNext ==
  \/ BuildRuntimeSegments \/ StartTrack \/ IntegrateFrame \/ ReturnTrack
  \/ ComputeSegmentVisuals

SpecVisual == VisualInit /\ [][VisualNext]_vars

\* C36: the bar of every segment starts at the earlier of the segment's
\* nominal startTs and the visually-active start detected on the camera
\* track, for every segment the detection finds an active range for.
C36_BarStartsAtEarlierStart ==
  visualsComputed =>
    \A i \in 1..Len(segmentVisuals) :
      LET Starts(segment, range) ==
            range # << >> =>
              segmentVisuals[i].startPreviewMs
                = Min(segment.startTs, trackSamples[range[1].startIndex].ts)
      IN Starts(trackRuntimeSegments[i],
                visualActiveRange(trackRuntimeSegments[i], trackSamples))

\* ------------------------------------------------------------------------
\* Follow-cursor target points: toRuntimeSegments on one follow-cursor
\* segment and a cursor sample list
\* ------------------------------------------------------------------------
MaxFollowSamples == 2
FollowStartTimes == {0, 100}
FollowEndTimes == {100, 150, 250, 400}
FollowSampleTimes == {0, 120, 300}
FollowSamplePositions == {100, 900}

\* Sample lists in timestamp order, as extractCursorSamples returns them.
FollowSampleLists ==
  {list \in UNION {[1..n -> [ts : FollowSampleTimes, x : FollowSamplePositions,
                             y : FollowSamplePositions]] : n \in 0..MaxFollowSamples} :
     \A i \in 1..(Len(list) - 1) : list[i].ts <= list[i + 1].ts}

FollowInit ==
  /\ \E startTs \in FollowStartTimes, endTs \in FollowEndTimes, rect \in {DEFAULT_RECT, MIN_SIZE_RECT} :
       followSegment = << TrackSegment(1, startTs, endTs, TRUE, rect, << >>, << DEFAULT_SPRING >>) >>
  /\ followSamples \in FollowSampleLists
  /\ followPoints = << >>
  /\ followDone = FALSE
  /\ NonFollowIdle

\* toRuntimeSegments on the segment.
BuildFollowPoints ==
  /\ ~followDone
  /\ followDone' = TRUE
  /\ followPoints' = toRuntimeSegments(followSegment, followSamples, 1920, 1080)[1].targetPoints
  /\ UNCHANGED << followSegment, followSamples, nonFollowVars >>

FollowNext == BuildFollowPoints

SpecFollow == FollowInit /\ [][FollowNext]_vars

\* The target points start at startTs, end at endTs and have strictly
\* increasing times.
followPointsSpanSegment ==
  /\ followPoints[1].ts = followSegment[1].startTs
  /\ Last(followPoints).ts = followSegment[1].endTs
  /\ \A i \in 1..(Len(followPoints) - 1) : followPoints[i].ts < followPoints[i + 1].ts

\* Consecutive target points are 75 ms apart, the last two at most 75 ms.
followPointsEvenlySpaced ==
  \A i \in 1..(Len(followPoints) - 1) :
    IF i + 1 < Len(followPoints)
    THEN followPoints[i + 1].ts - followPoints[i].ts = FOLLOW_SAMPLE_STEP_MS
    ELSE followPoints[i + 1].ts - followPoints[i].ts <= FOLLOW_SAMPLE_STEP_MS

\* C37 as stated: for every follow-cursor segment with endTs > startTs and
\* every cursor sample list, the empty one included, the target points span
\* the segment with strictly increasing times and are 75 ms apart, the last
\* interval at most 75 ms.
C37_PointsEvery75Ms ==
  (followDone /\ followSegment[1].endTs > followSegment[1].startTs) =>
    followPointsSpanSegment /\ followPointsEvenlySpaced

\* C37 amended: the target points span the segment with strictly increasing
\* times for every cursor sample list; they are 75 ms apart (the last
\* interval at most 75 ms) when there are cursor samples, and are the two
\* points at startTs and endTs when there are none.
C37_PointsEvery75MsWithSamples ==
  (followDone /\ followSegment[1].endTs > followSegment[1].startTs) =>
    /\ followPointsSpanSegment
    /\ IF Len(followSamples) > 0 THEN followPointsEvenlySpaced ELSE Len(followPoints) = 2

\* Target points were generated from cursor samples for a segment whose
\* length is not a multiple of 75 ms, the last interval being shorter.
C37_PointsWithShortLastInterval ==
  /\ followDone /\ Len(followSamples) > 0 /\ Len(followPoints) >= 4
  /\ Last(followPoints).ts - followPoints[Len(followPoints) - 1].ts < FOLLOW_SAMPLE_STEP_MS
  /\ followPoints[2].rect # followPoints[1].rect

\* The dragged segment, taken from a segment list: << >> when it is gone.
draggedSegmentIn(segments) ==
  IF dragState = << >> THEN << >>
  ELSE findSegment(segments, << dragState[1].segmentId >>)

\* C38: a move-drag whose pointer displacement maps to a time delta of 0
\* leaves the dragged segment's startTs and endTs unchanged, for every
\* segment of a timeline the editor can reach, a segment that starts at 0 or
\* ends at the timeline end included.
C38_ZeroDeltaMoveKeepsTimes ==
  [][(/\ dragState # << >>
      /\ dragState[1].mode = "move"
      /\ draggedSegmentIn(zoomSegments) # << >>
      /\ draggedSegmentIn(zoomSegments)[1].startTs = dragState[1].initialStartTs
      /\ draggedSegmentIn(zoomSegments)[1].endTs = dragState[1].initialEndTs
      /\ PointerMoveBy(0))
     => /\ draggedSegmentIn(zoomSegments') # << >>
        /\ draggedSegmentIn(zoomSegments')[1].startTs = dragState[1].initialStartTs
        /\ draggedSegmentIn(zoomSegments')[1].endTs = dragState[1].initialEndTs]_vars

\* The searched list is a timeline as the editor keeps it: segments inside
\* the timeline, each with a positive length, in order and not overlapping.
gapSegmentsOnTimeline ==
  /\ \A i \in 1..Len(gapSegments) :
       /\ 0 <= gapSegments[i].startTs
       /\ gapSegments[i].startTs < gapSegments[i].endTs
       /\ gapSegments[i].endTs <= gapDurationMs
  /\ \A i \in 1..(Len(gapSegments) - 1) : gapSegments[i].endTs <= gapSegments[i + 1].startTs

\* Some interval of MIN_SEGMENT_MS on the timeline is free: it starts at 0 or
\* MIN_SEGMENT_GAP_MS after a segment and keeps MIN_SEGMENT_GAP_MS from
\* every segment.
freeGapExists ==
  \E gapStart \in {0} \cup {gapSegments[i].endTs + MIN_SEGMENT_GAP_MS : i \in 1..Len(gapSegments)} :
    /\ gapStart + MIN_SEGMENT_MS <= gapDurationMs
    /\ \A i \in 1..Len(gapSegments) :
         \/ gapSegments[i].endTs + MIN_SEGMENT_GAP_MS <= gapStart
         \/ gapStart + MIN_SEGMENT_MS + MIN_SEGMENT_GAP_MS <= gapSegments[i].startTs

\* C39: the gap search returns no slot only if the timeline has no free gap
\* of at least 200 ms that keeps the 200 ms separation from the neighbouring
\* segments; when such a gap exists, a slot is returned for every playhead
\* position.
C39_NoSlotOnlyWithoutFreeGap ==
  (gapReturned /\ gapSegmentsOnTimeline /\ freeGapExists) => gapSlot # << >>

====
